---- MODULE Spec2Model ----
(***************************************************************************)
(* Model of the nesting engine of nest.py: the margin-aware collision      *)
(* index, the strip filler (phase 1), the empty-area backfill (phase 2),   *)
(* the 8 strategies and their competition.                                 *)
(*                                                                         *)
(* Geometry.  Lengths are whole millimetres.  A geometry is a finite,      *)
(* non-empty set of axis-aligned rectangles <<x1, y1, x2, y2>> with        *)
(* disjoint interiors (a rectilinear polygon cut into parts); the empty    *)
(* set stands for Python's None.  geom.buffer(r) is the exact Euclidean    *)
(* offset: a candidate intersects the footprint of a stored piece iff      *)
(* some part of one is within r of some part of the other, touching        *)
(* included (shapely's intersects is true of geometries that share only    *)
(* boundary points).  r = margin/2 is never formed: 2*d <= margin is       *)
(* compared instead, so every quantity stays an integer.                   *)
(***************************************************************************)
EXTENDS Integers, Sequences, FiniteSets, TLC

\* ------------------------------------------------------------------------
\* Bounds of the model
\* ------------------------------------------------------------------------
MinSheet == 7
MaxSheet == 8
MaxPiece == 3
MaxMargin == 3
MaxTarget == 7
CpuCount == 2

\* ------------------------------------------------------------------------
\* Program constants
\* ------------------------------------------------------------------------
step == 2
MaxShift == 20000
AreaRatioDen == 20

\* ------------------------------------------------------------------------
\* Geometry helpers
\* ------------------------------------------------------------------------
Max2(a, b) == IF a >= b THEN a ELSE b
Min2(a, b) == IF a <= b THEN a ELSE b

SetMax(S) == CHOOSE m \in S : \A e \in S : e <= m
SetMin(S) == CHOOSE m \in S : \A e \in S : m <= e

\* geom.bounds : (minx, miny, maxx, maxy)
bounds(g) ==
    << SetMin({r[1] : r \in g}), SetMin({r[2] : r \in g}),
       SetMax({r[3] : r \in g}), SetMax({r[4] : r \in g}) >>

\* shapely.affinity.translate
shp_translate(g, xoff, yoff) ==
    { <<r[1] + xoff, r[2] + yoff, r[3] + xoff, r[4] + yoff>> : r \in g }

\* normalize_polygon: bounding box's minimum corner moved to the origin
normalize_polygon(poly) ==
    LET b == bounds(poly) IN shp_translate(poly, 0 - b[1], 0 - b[2])

\* shapely.affinity.rotate by 180 degrees; the centre of rotation is lost
\* in the normalisation that follows every use of it
shp_rotate180(g) == { <<0 - r[3], 0 - r[4], 0 - r[1], 0 - r[2]>> : r \in g }

\* mutant: the turn by 90 degrees doubles the extent along y
shp_rotate90_stretched(g) == { <<0 - r[4], 2 * r[1], 0 - r[2], 2 * r[3]>> : r \in g }

\* shapely.affinity.rotate by +90 degrees (counter-clockwise):
\* (x, y) -> (-y, x) up to the translation the normalisation removes
shp_rotate90(g) == { <<0 - r[4], r[1], 0 - r[2], r[3]>> : r \in g }

RECURSIVE area(_)
\* Polygon.area: the parts have disjoint interiors
area(g) ==
    IF g = {} THEN 0
    ELSE LET r == CHOOSE q \in g : TRUE
         IN (r[3] - r[1]) * (r[4] - r[2]) + area(g \ {r})

\* gap between two intervals [a1, a2] and [b1, b2] (0 when they meet)
AxisGap(a1, a2, b1, b2) == Max2(0, Max2(b1 - a2, a1 - b2))

\* squared Euclidean distance between two rectangles
RectDist2(p, q) ==
    LET dx == AxisGap(p[1], p[3], q[1], q[3])
        dy == AxisGap(p[2], p[4], q[2], q[4])
    IN dx * dx + dy * dy

\* squared distance between the outlines of two geometries
Dist2(g, h) == SetMin({ RectDist2(p, q) : p \in g, q \in h })

\* ------------------------------------------------------------------------
\* CollisionIndex
\* ------------------------------------------------------------------------
\* margin2 is twice margin_half, i.e. the margin itself.  items_buf[i] is
\* the footprint of items[i]: the geometry with the radius (doubled) it was
\* inflated by.  bounds[i] is gbuf.bounds in doubled coordinates.
CollisionIndex(margin2, have_rtree) ==
    [ margin2 |-> margin2, items |-> << >>, items_buf |-> << >>,
      bounds |-> << >>, count |-> 0, rtree |-> have_rtree ]

\* geom.buffer(self.margin_half) if self.margin_half > 0 else geom
buffer(geom, margin2) ==
    IF margin2 > 0 THEN [ geom |-> geom, r2 |-> margin2 ]
    ELSE [ geom |-> geom, r2 |-> 0 ]

\* gbuf.bounds, doubled
buf_bounds(gbuf) ==
    LET b == bounds(gbuf.geom)
    IN << 2 * b[1] - gbuf.r2, 2 * b[2] - gbuf.r2,
          2 * b[3] + gbuf.r2, 2 * b[4] + gbuf.r2 >>

add(idx, geom) ==
    LET gbuf == buffer(geom, idx.margin2)
    IN [ idx EXCEPT !.items = Append(@, geom),
                    !.items_buf = Append(@, gbuf),
                    !.bounds = Append(@, buf_bounds(gbuf)),
                    !.count = @ + 1 ]

\* mutant: geometries that only touch do not intersect
prep_intersects_open(gbuf, cand) ==
    4 * Dist2(gbuf.geom, cand) < gbuf.r2 * gbuf.r2

\* items_prep[i].intersects(cand): some point of cand within r2/2 of geom
prep_intersects(gbuf, cand) ==
    4 * Dist2(gbuf.geom, cand) <= gbuf.r2 * gbuf.r2

\* mutant: the spatial index leaves out the boxes that share only a
\* border with the query box
rtree_intersection_strict(idx, cand) ==
    LET c == bounds(cand)
    IN { i \in 1..Len(idx.bounds) :
           /\ idx.bounds[i][1] < 2 * c[3]
           /\ 2 * c[1] < idx.bounds[i][3]
           /\ idx.bounds[i][2] < 2 * c[4]
           /\ 2 * c[2] < idx.bounds[i][4] }

\* self.idx.intersection(cand_bbox): stored boxes meeting the query box,
\* shared borders included
rtree_intersection(idx, cand) ==
    LET c == bounds(cand)
    IN { i \in 1..Len(idx.bounds) :
           /\ idx.bounds[i][1] <= 2 * c[3]
           /\ 2 * c[1] <= idx.bounds[i][3]
           /\ idx.bounds[i][2] <= 2 * c[4]
           /\ 2 * c[2] <= idx.bounds[i][4] }

\* mutant: boxes that share only a border are skipped too
bbox_skip_touching(b, cand) ==
    LET c == bounds(cand)
    IN \/ 2 * c[3] <= b[1]
       \/ 2 * c[1] >= b[3]
       \/ 2 * c[4] <= b[2]
       \/ 2 * c[2] >= b[4]

\* the bounding-box pre-check of the fallback without Rtree
bbox_skip(b, cand) ==
    LET c == bounds(cand)
    IN \/ 2 * c[3] < b[1]
       \/ 2 * c[1] > b[3]
       \/ 2 * c[4] < b[2]
       \/ 2 * c[2] > b[4]

\* mutant: the empty index reports a collision
collides_empty_true(idx, cand) ==
    IF idx.items = << >> THEN TRUE
    ELSE IF idx.rtree
         THEN \E i \in rtree_intersection(idx, cand) :
                  prep_intersects(idx.items_buf[i], cand)
         ELSE \E i \in 1..Len(idx.bounds) :
                  /\ ~bbox_skip(idx.bounds[i], cand)
                  /\ prep_intersects(idx.items_buf[i], cand)

collides(idx, cand) ==
    IF idx.items = << >> THEN FALSE
    ELSE IF idx.rtree
         THEN \E i \in rtree_intersection(idx, cand) :
                  prep_intersects(idx.items_buf[i], cand)
         ELSE \E i \in 1..Len(idx.bounds) :
                  /\ ~bbox_skip(idx.bounds[i], cand)
                  /\ prep_intersects(idx.items_buf[i], cand)

\* ------------------------------------------------------------------------
\* The slide search and the piece of the next placement
\* ------------------------------------------------------------------------
\* fits_sheet / fits_empty_rect: a bounding box inside the region
\* <<x, y, w, h>>
\* mutant: the right edge of the region is not checked
fits_rect_no_right(rect, geom) ==
    LET b == bounds(geom)
    IN /\ b[1] >= rect[1]
       /\ b[2] >= rect[2]
       /\ b[4] <= rect[2] + rect[4]

fits_rect(rect, geom) ==
    LET b == bounds(geom)
    IN /\ b[1] >= rect[1]
       /\ b[2] >= rect[2]
       /\ b[3] <= rect[1] + rect[3]
       /\ b[4] <= rect[2] + rect[4]

fits_sheet(sheet_w, sheet_h, geom) == fits_rect(<<0, 0, sheet_w, sheet_h>>, geom)

fits_empty_rect(empty_rect, geom) == fits_rect(empty_rect, geom)

\* mutant: the shift grows by 1 mm per pass
slide_cand_unit_step(base_geom, direction, k) ==
    shp_translate(base_geom,
                  IF direction = "x" THEN k ELSE 0,
                  IF direction = "y" THEN k ELSE 0)

\* the candidate of the pass of the slide loop with shift = k * step
slide_cand(base_geom, direction, k) ==
    shp_translate(base_geom,
                  IF direction = "x" THEN k * step ELSE 0,
                  IF direction = "y" THEN k * step ELSE 0)

\* the pass with shift = k * step leaves the loop: the while condition
\* fails, the candidate breaks out of the region, or it is returned
slide_exit(base_geom, direction, idx, rect, k) ==
    \/ ~(k * step < MaxShift)
    \/ ~fits_rect(rect, slide_cand(base_geom, direction, k))
    \/ ~collides(idx, slide_cand(base_geom, direction, k))

\* the while loop of first_touch / _first_touch: shift = 0, step, 2*step,
\* ... up to the first pass that leaves the loop; that pass returns its
\* candidate when it got as far as the collision test, None otherwise
slide(base_geom, direction, idx, rect) ==
    LET last == CHOOSE k \in 0..((MaxShift + step - 1) \div step) :
                    /\ slide_exit(base_geom, direction, idx, rect, k)
                    /\ \A j \in 0..(k - 1) :
                           ~slide_exit(base_geom, direction, idx, rect, j)
        cand == slide_cand(base_geom, direction, last)
    IN IF (last * step < MaxShift) /\ fits_rect(rect, cand) THEN cand ELSE {}

first_touch(base_geom, direction, idx, sheet_w, sheet_h) ==
    slide(base_geom, direction, idx, <<0, 0, sheet_w, sheet_h>>)

\* the piece of the next placement: rotated by 180 degrees when the
\* running counter is odd and alternation is on
current_piece(piece_normalized, alternate_180, counter) ==
    IF alternate_180 /\ counter % 2 = 1
    THEN normalize_polygon(shp_rotate180(piece_normalized))
    ELSE piece_normalized

\* ------------------------------------------------------------------------
\* FASE 1: fill_phase_1, one operator per loop
\* ------------------------------------------------------------------------
\* c is the call: [poly_piece, count, margin, sheet_w, sheet_h, direction,
\* alternate_180, have_rtree].  f holds the locals of fill_phase_1; f.pc is
\* "seed" at the head of the outer while loop, "slide" at the head of the
\* inner one and "end" after the outer loop.
p1_locals(c) ==
    [ placed |-> << >>, total |-> 0, piece_counter |-> 0,
      x0 |-> 0, y0 |-> 0, base_geom |-> {},
      coll_idx |-> CollisionIndex(c.margin, c.have_rtree),
      pc |-> "seed" ]

\* placed.append(g); coll_idx.add(g); total += 1; piece_counter += 1;
\* base_geom = g
p1_place(f, g) ==
    [ f EXCEPT !.placed = Append(@, g),
               !.coll_idx = add(@, g),
               !.total = @ + 1,
               !.piece_counter = @ + 1,
               !.base_geom = g,
               !.pc = "slide" ]

\* mutant: the next strip starts flush against the previous one, the
\* margin forgotten
p1_next_strip_no_margin(f, c) ==
    IF c.direction = "x"
    THEN [ f EXCEPT !.y0 = SetMax({0} \cup { bounds(f.placed[i])[4] : i \in 1..Len(f.placed) }),
                    !.x0 = 0, !.pc = "seed" ]
    ELSE [ f EXCEPT !.x0 = SetMax({0} \cup { bounds(f.placed[i])[3] : i \in 1..Len(f.placed) }),
                    !.y0 = 0, !.pc = "seed" ]

\* mutant: the next strip starts half a margin past the previous ones
p1_next_strip_half_margin(f, c) ==
    IF c.direction = "x"
    THEN [ f EXCEPT !.y0 = SetMax({0} \cup { bounds(f.placed[i])[4] : i \in 1..Len(f.placed) })
                          + c.margin \div 2,
                    !.x0 = 0, !.pc = "seed" ]
    ELSE [ f EXCEPT !.x0 = SetMax({0} \cup { bounds(f.placed[i])[3] : i \in 1..Len(f.placed) })
                          + c.margin \div 2,
                    !.y0 = 0, !.pc = "seed" ]

\* mutant: the alternation counter starts again at 0 on every strip
p1_next_strip_reset_counter(f, c) ==
    IF c.direction = "x"
    THEN [ f EXCEPT !.y0 = SetMax({0} \cup { bounds(f.placed[i])[4] : i \in 1..Len(f.placed) })
                          + c.margin,
                    !.x0 = 0, !.piece_counter = 0, !.pc = "seed" ]
    ELSE [ f EXCEPT !.x0 = SetMax({0} \cup { bounds(f.placed[i])[3] : i \in 1..Len(f.placed) })
                          + c.margin,
                    !.y0 = 0, !.piece_counter = 0, !.pc = "seed" ]

\* the end of a strip: the next strip starts past the greatest extent of
\* every piece placed so far, plus the margin
p1_next_strip(f, c) ==
    IF c.direction = "x"
    THEN [ f EXCEPT !.y0 = SetMax({0} \cup { bounds(f.placed[i])[4] : i \in 1..Len(f.placed) })
                          + c.margin,
                    !.x0 = 0, !.pc = "seed" ]
    ELSE [ f EXCEPT !.x0 = SetMax({0} \cup { bounds(f.placed[i])[3] : i \in 1..Len(f.placed) })
                          + c.margin,
                    !.y0 = 0, !.pc = "seed" ]

\* mutant: a seed that does not fit or collides is tried again instead of
\* leaving the loop
p1_seed_retry(f, c) ==
    IF ~(f.total < c.count) THEN [ f EXCEPT !.pc = "end" ]
    ELSE LET piece_normalized_base == normalize_polygon(c.poly_piece)
             cur == current_piece(piece_normalized_base, c.alternate_180, f.piece_counter)
             placed_geom == shp_translate(cur, f.x0, f.y0)
         IN IF ~fits_sheet(c.sheet_w, c.sheet_h, placed_geom) \/ collides(f.coll_idx, placed_geom)
            THEN f
            ELSE p1_place(f, placed_geom)

\* one pass of the outer loop up to the inner loop: the seed of a strip
p1_seed(f, c) ==
    IF ~(f.total < c.count) THEN [ f EXCEPT !.pc = "end" ]
    ELSE LET piece_normalized_base == normalize_polygon(c.poly_piece)
             cur == current_piece(piece_normalized_base, c.alternate_180, f.piece_counter)
             placed_geom == shp_translate(cur, f.x0, f.y0)
         IN IF ~fits_sheet(c.sheet_w, c.sheet_h, placed_geom) \/ collides(f.coll_idx, placed_geom)
            THEN [ f EXCEPT !.pc = "end" ]
            ELSE p1_place(f, placed_geom)

\* mutant: the inner loop goes on while total <= count
p1_next_one_more(f, c) ==
    IF ~(f.total <= c.count) THEN p1_next_strip(f, c)
    ELSE LET piece_normalized_base == normalize_polygon(c.poly_piece)
             cur == current_piece(piece_normalized_base, c.alternate_180, f.piece_counter)
             next_template == shp_translate(cur, bounds(f.base_geom)[1], bounds(f.base_geom)[2])
             next_geom == first_touch(next_template, c.direction, f.coll_idx,
                                      c.sheet_w, c.sheet_h)
         IN IF next_geom = {} THEN p1_next_strip(f, c)
            ELSE p1_place(f, next_geom)

\* one pass of the inner loop; leaving it ends the strip
p1_next(f, c) ==
    IF ~(f.total < c.count) THEN p1_next_strip(f, c)
    ELSE LET piece_normalized_base == normalize_polygon(c.poly_piece)
             cur == current_piece(piece_normalized_base, c.alternate_180, f.piece_counter)
             next_template == shp_translate(cur, bounds(f.base_geom)[1], bounds(f.base_geom)[2])
             next_geom == first_touch(next_template, c.direction, f.coll_idx,
                                      c.sheet_w, c.sheet_h)
         IN IF next_geom = {} THEN p1_next_strip(f, c)
            ELSE p1_place(f, next_geom)

p1_step(f, c) == IF f.pc = "seed" THEN p1_seed(f, c) ELSE p1_next(f, c)

RECURSIVE p1_run(_, _)
p1_run(f, c) == IF f.pc = "end" THEN f ELSE p1_run(p1_step(f, c), c)

\* fill_phase_1 returns (placed, total)
fill_phase_1(c) == p1_run(p1_locals(c), c)

\* ------------------------------------------------------------------------
\* find_empty_rectangle
\* ------------------------------------------------------------------------
\* empty_area > sheet_w * sheet_h * min_area_ratio, with min_area_ratio =
\* 0.05 = 1 / AreaRatioDen
qualifies(empty_area, sheet_w, sheet_h) ==
    AreaRatioDen * empty_area > sheet_w * sheet_h

\* the candidates in the order they are appended; a candidate is
\* [x, y, w, h, area, name]
empty_candidates(sheet_w, sheet_h, placed_pieces, margin) ==
    LET n == Len(placed_pieces)
        max_x == SetMax({ bounds(placed_pieces[i])[3] : i \in 1..n })
        max_y == SetMax({ bounds(placed_pieces[i])[4] : i \in 1..n })
        direita == [ x |-> max_x + margin, y |-> 0,
                     w |-> sheet_w - max_x - margin, h |-> sheet_h,
                     area |-> (sheet_w - max_x - margin) * sheet_h,
                     name |-> "direita" ]
        inferior == [ x |-> 0, y |-> max_y + margin,
                      w |-> max_x, h |-> sheet_h - max_y - margin,
                      area |-> max_x * (sheet_h - max_y - margin),
                      name |-> "inferior" ]
        canto == [ x |-> max_x + margin, y |-> max_y + margin,
                   w |-> sheet_w - max_x - margin, h |-> sheet_h - max_y - margin,
                   area |-> (sheet_w - max_x - margin) * (sheet_h - max_y - margin),
                   name |-> "canto" ]
    IN (IF max_x + margin < sheet_w /\ qualifies(direita.area, sheet_w, sheet_h)
        THEN << direita >> ELSE << >>)
       \o (IF max_y + margin < sheet_h /\ qualifies(inferior.area, sheet_w, sheet_h)
           THEN << inferior >> ELSE << >>)
       \o (IF max_x + margin < sheet_w /\ max_y + margin < sheet_h
              /\ qualifies(canto.area, sheet_w, sheet_h)
           THEN << canto >> ELSE << >>)

\* mutant: the last candidate, whatever its area
max_by_area_last(candidates) == candidates[Len(candidates)]

\* mutant: the first candidate, whatever its area
max_by_area_first(candidates) == candidates[1]

\* max(candidates, key=area): the first candidate of greatest area
max_by_area(candidates) ==
    candidates[ CHOOSE i \in 1..Len(candidates) :
                    /\ \A j \in 1..Len(candidates) : candidates[j].area <= candidates[i].area
                    /\ \A j \in 1..(i - 1) : candidates[j].area < candidates[i].area ]

\* the region <<x, y, w, h>>, or << >> for None
find_empty_rectangle(sheet_w, sheet_h, placed_pieces, margin) ==
    IF placed_pieces = << >> THEN << >>
    ELSE LET candidates == empty_candidates(sheet_w, sheet_h, placed_pieces, margin)
         IN IF candidates = << >> THEN << >>
            ELSE LET best == max_by_area(candidates)
                 IN << best.x, best.y, best.w, best.h >>

\* ------------------------------------------------------------------------
\* FASE 2: fill_phase_2_smart.test_combination, one operator per loop
\* ------------------------------------------------------------------------
_first_touch(base_geom, direction, idx, empty_rect) ==
    slide(base_geom, direction, idx, empty_rect)

RECURSIVE add_all(_, _, _)
\* for p in placed_phase1: comb_idx.add(p)
add_all(idx, geoms, i) ==
    IF i > Len(geoms) THEN idx ELSE add_all(add(idx, geoms[i]), geoms, i + 1)

\* mutant: the list starts empty, the pieces of phase 1 not copied into it
t_locals_no_copy(c, placed_phase1, empty_rect) ==
    [ test_placed |-> << >>,
      test_total |-> Len(placed_phase1),
      test_counter |-> Len(placed_phase1),
      comb_idx |-> add_all(CollisionIndex(c.margin, c.have_rtree), placed_phase1, 1),
      x0 |-> empty_rect[1], y0 |-> empty_rect[2],
      base_geom |-> {},
      pc |-> "seed" ]

\* the locals of test_combination before its loop
t_locals(c, placed_phase1, empty_rect) ==
    [ test_placed |-> placed_phase1,
      test_total |-> Len(placed_phase1),
      test_counter |-> Len(placed_phase1),
      comb_idx |-> add_all(CollisionIndex(c.margin, c.have_rtree), placed_phase1, 1),
      x0 |-> empty_rect[1], y0 |-> empty_rect[2],
      base_geom |-> {},
      pc |-> "seed" ]

t_place(t, g) ==
    [ t EXCEPT !.test_placed = Append(@, g),
               !.test_total = @ + 1,
               !.test_counter = @ + 1,
               !.base_geom = g,
               !.comb_idx = add(@, g),
               !.pc = "slide" ]

\* the end of a strip: the next one starts past the last piece placed,
\* plus the margin, and the combination ends when a piece of the
\* unrotated size no longer fits the region there
t_next_strip(t, c, empty_rect, piece_to_use, direction) ==
    LET pb == bounds(normalize_polygon(piece_to_use))
    IN IF direction = "x"
       THEN LET ny == bounds(t.base_geom)[4] + c.margin
            IN [ t EXCEPT !.y0 = ny, !.x0 = empty_rect[1],
                          !.pc = IF ny + (pb[4] - pb[2]) > empty_rect[2] + empty_rect[4]
                                 THEN "end" ELSE "seed" ]
       ELSE LET nx == bounds(t.base_geom)[3] + c.margin
            IN [ t EXCEPT !.x0 = nx, !.y0 = empty_rect[2],
                          !.pc = IF nx + (pb[3] - pb[1]) > empty_rect[1] + empty_rect[3]
                                 THEN "end" ELSE "seed" ]

\* mutant: the seed is tested against the index only, not the region
t_seed_any_region(t, c, empty_rect, piece_to_use, direction) ==
    IF ~(t.test_total < c.count) THEN [ t EXCEPT !.pc = "end" ]
    ELSE LET piece_normalized == normalize_polygon(piece_to_use)
             cur == current_piece(piece_normalized, c.alternate_180, t.test_counter)
             placed_geom == shp_translate(cur, t.x0, t.y0)
         IN IF collides(t.comb_idx, placed_geom)
            THEN [ t EXCEPT !.pc = "end" ]
            ELSE t_place(t, placed_geom)

t_seed(t, c, empty_rect, piece_to_use, direction) ==
    IF ~(t.test_total < c.count) THEN [ t EXCEPT !.pc = "end" ]
    ELSE LET piece_normalized == normalize_polygon(piece_to_use)
             cur == current_piece(piece_normalized, c.alternate_180, t.test_counter)
             placed_geom == shp_translate(cur, t.x0, t.y0)
         IN IF ~fits_empty_rect(empty_rect, placed_geom) \/ collides(t.comb_idx, placed_geom)
            THEN [ t EXCEPT !.pc = "end" ]
            ELSE t_place(t, placed_geom)

t_next(t, c, empty_rect, piece_to_use, direction) ==
    IF ~(t.test_total < c.count)
    THEN t_next_strip(t, c, empty_rect, piece_to_use, direction)
    ELSE LET piece_normalized == normalize_polygon(piece_to_use)
             cur == current_piece(piece_normalized, c.alternate_180, t.test_counter)
             next_template == shp_translate(cur, bounds(t.base_geom)[1], bounds(t.base_geom)[2])
             next_geom == _first_touch(next_template, direction, t.comb_idx, empty_rect)
         IN IF next_geom = {} THEN t_next_strip(t, c, empty_rect, piece_to_use, direction)
            ELSE IF ~fits_empty_rect(empty_rect, next_geom)
                 THEN t_next_strip(t, c, empty_rect, piece_to_use, direction)
                 ELSE t_place(t, next_geom)

t_step(t, c, empty_rect, piece_to_use, direction) ==
    IF t.pc = "seed" THEN t_seed(t, c, empty_rect, piece_to_use, direction)
    ELSE t_next(t, c, empty_rect, piece_to_use, direction)

RECURSIVE t_run(_, _, _, _, _)
t_run(t, c, empty_rect, piece_to_use, direction) ==
    IF t.pc = "end" THEN t
    ELSE t_run(t_step(t, c, empty_rect, piece_to_use, direction),
               c, empty_rect, piece_to_use, direction)

\* test_combination returns (test_placed, test_total, added)
test_combination(c, placed_phase1, empty_rect, piece_to_use, direction) ==
    t_run(t_locals(c, placed_phase1, empty_rect), c, empty_rect, piece_to_use, direction)

\* ------------------------------------------------------------------------
\* fill_phase_2_smart: the four combinations and the choice of the best
\* ------------------------------------------------------------------------
\* orientations_to_test x ['x', 'y'], in the order of the two for loops
combinations(poly_piece) ==
    LET piece_rot90 == normalize_polygon(shp_rotate90(poly_piece))
    IN << [ piece |-> poly_piece, direction |-> "x", name |-> "original 0 + horizontal" ],
          [ piece |-> poly_piece, direction |-> "y", name |-> "original 0 + vertical" ],
          [ piece |-> piece_rot90, direction |-> "x", name |-> "rotacionada 90 + horizontal" ],
          [ piece |-> piece_rot90, direction |-> "y", name |-> "rotacionada 90 + vertical" ] >>

\* best_result = None; best_count = 0
p2_best_init == [ best_result |-> << >>, best_count |-> 0, none |-> TRUE ]

\* mutant: a combination that adds as many as the best so far replaces it
p2_update_last_wins(best, t, placed_phase1) ==
    LET result_added == t.test_total - Len(placed_phase1)
    IN IF result_added >= best.best_count
       THEN [ best_result |-> t.test_placed, best_count |-> result_added, none |-> FALSE ]
       ELSE best

\* if result_added > best_count: best_result = result_placed; ...
p2_update(best, t, placed_phase1) ==
    LET result_added == t.test_total - Len(placed_phase1)
    IN IF result_added > best.best_count
       THEN [ best_result |-> t.test_placed, best_count |-> result_added, none |-> FALSE ]
       ELSE best

\* the return after the loops
p2_return(best, placed_phase1) ==
    IF best.none \/ best.best_count = 0 THEN placed_phase1 ELSE best.best_result

RECURSIVE p2_loop(_, _, _, _, _)
p2_loop(c, placed_phase1, empty_rect, k, best) ==
    IF k > Len(combinations(c.poly_piece)) THEN best
    ELSE LET cb == combinations(c.poly_piece)[k]
             t == test_combination(c, placed_phase1, empty_rect, cb.piece, cb.direction)
         IN p2_loop(c, placed_phase1, empty_rect, k + 1, p2_update(best, t, placed_phase1))

\* fill_phase_2_smart returns (placed, len(placed)); the list is modelled
fill_phase_2_smart(c, placed_phase1) ==
    IF Len(placed_phase1) >= c.count THEN placed_phase1
    ELSE LET empty_rect == find_empty_rectangle(c.sheet_w, c.sheet_h, placed_phase1, c.margin)
         IN IF empty_rect = << >> THEN placed_phase1
            ELSE p2_return(p2_loop(c, placed_phase1, empty_rect, 1, p2_best_init),
                           placed_phase1)

\* ------------------------------------------------------------------------
\* ESTRATEGIAS and _run_strategy
\* ------------------------------------------------------------------------
FnCodes == {"H", "V", "H90", "V90"}

\* the call of fill_phase_1 / fill_phase_2_smart a strategy makes: the
\* rot90 strategies pass the piece rotated by 90 degrees, the horizontal
\* ones fill in direction x, the vertical ones in direction y
strategy_call(in, fn_code, alternate) ==
    [ poly_piece |-> IF fn_code \in {"H90", "V90"}
                     THEN normalize_polygon(shp_rotate90(in.poly_piece))
                     ELSE in.poly_piece,
      count |-> in.count, margin |-> in.margin,
      sheet_w |-> in.sheet_w, sheet_h |-> in.sheet_h,
      direction |-> IF fn_code \in {"H", "H90"} THEN "x" ELSE "y",
      alternate_180 |-> alternate,
      have_rtree |-> in.have_rtree ]

\* strategy_horizontal_smart / strategy_vertical_smart on the call c
strategy_smart(c) ==
    LET f == fill_phase_1(c)
    IN IF f.total < c.count THEN fill_phase_2_smart(c, f.placed) ELSE f.placed

\* mutant: the area of the bounding box taken for the area of the piece
utilization_bbox(placed, poly_piece, sheet_w, sheet_h) ==
    LET b == bounds(poly_piece)
    IN [ num |-> Len(placed) * ((b[3] - b[1]) * (b[4] - b[2])) * 100,
         den |-> sheet_w * sheet_h ]

\* util = (len(placed) * poly_piece.area) / (sheet_w * sheet_h) * 100.0,
\* kept as the exact fraction num / den
utilization(placed, poly_piece, sheet_w, sheet_h) ==
    [ num |-> Len(placed) * area(poly_piece) * 100, den |-> sheet_w * sheet_h ]

\* _run_strategy returns (tag, placed, util)
_run_strategy(tag, fn_code, in, alternate) ==
    LET placed == strategy_smart(strategy_call(in, fn_code, alternate))
    IN [ name |-> tag, placed |-> placed,
         util |-> utilization(placed, in.poly_piece, in.sheet_w, in.sheet_h) ]

\* the jobs of compete_strategies, in the order of the list
jobs ==
    << [ name |-> "Horizontal + Smart",           fn_code |-> "H",   alt |-> FALSE,
         fname |-> "winner_horizontal_smart.dxf" ],
       [ name |-> "Vertical + Smart",             fn_code |-> "V",   alt |-> FALSE,
         fname |-> "winner_vertical_smart.dxf" ],
       [ name |-> "Horizontal + Smart (alt)",     fn_code |-> "H",   alt |-> TRUE,
         fname |-> "winner_horizontal_smart_alt.dxf" ],
       [ name |-> "Vertical + Smart (alt)",       fn_code |-> "V",   alt |-> TRUE,
         fname |-> "winner_vertical_smart_alt.dxf" ],
       [ name |-> "Horizontal 90 + Smart",        fn_code |-> "H90", alt |-> FALSE,
         fname |-> "winner_horizontal90_smart.dxf" ],
       [ name |-> "Vertical 90 + Smart",          fn_code |-> "V90", alt |-> FALSE,
         fname |-> "winner_vertical90_smart.dxf" ],
       [ name |-> "Horizontal 90 + Smart (alt)",  fn_code |-> "H90", alt |-> TRUE,
         fname |-> "winner_horizontal90_smart_alt.dxf" ],
       [ name |-> "Vertical 90 + Smart (alt)",    fn_code |-> "V90", alt |-> TRUE,
         fname |-> "winner_vertical90_smart_alt.dxf" ] >>

\* ------------------------------------------------------------------------
\* Inputs
\* ------------------------------------------------------------------------
Rect(w, h) == { <<0, 0, w, h>> }

\* an L: a bar of height 1 along the bottom and a column of width 1 on the
\* left, in a w x h box
LShape(w, h) == { <<0, 0, w, 1>>, <<0, 1, 1, h>> }

Pieces ==
    { Rect(w, h) : w \in 2..MaxPiece, h \in 2..MaxPiece } \cup { LShape(MaxPiece, MaxPiece) }

Input(piece, n, m, w, h, rt) ==
    [ poly_piece |-> piece, count |-> n, margin |-> m,
      sheet_w |-> w, sheet_h |-> h, have_rtree |-> rt ]

SmallInputs ==
    { Input(p, n, m, w, h, rt) :
        p \in Pieces, n \in 1..MaxTarget, m \in 0..MaxMargin,
        w \in MinSheet..MaxSheet, h \in MinSheet..MaxSheet, rt \in BOOLEAN }

\* Scenario A and Scenario B of the specification, with and without Rtree
ScenarioA == { Input(Rect(100, 100), 400, 0, 1000, 1000, rt) : rt \in BOOLEAN }
ScenarioB == { Input(Rect(300, 200), 100, 10, 1000, 500, rt) : rt \in BOOLEAN }

Inputs == SmallInputs \cup ScenarioA \cup ScenarioB

\* ------------------------------------------------------------------------
\* One strategy run, step by step
\* ------------------------------------------------------------------------
VARIABLES
    inp,         \* the arguments of _run_strategy but the tag
    job,         \* the index in jobs of the strategy that runs
    pc,          \* "phase1", "phase2", "return", "done"
    f,           \* the locals of fill_phase_1
    empty_rect,  \* the region of fill_phase_2_smart, << >> before it
    k,           \* the combination of fill_phase_2_smart under test
    t,           \* the locals of test_combination
    best,        \* best_result / best_count of fill_phase_2_smart
    placed,      \* the list the strategy returns
    result,      \* what _run_strategy returns
    cpc,         \* where compete_strategies is: "start", "collect",
                 \* "sequential", "reduce", "done" ("idle": not called)
    parallel,    \* the argument, then local, parallel of compete_strategies
    futs,        \* per job, its future: "none", "queued", "running",
                 \* "finished", "raised"
    results,     \* the list results
    winner,      \* best and the path it was exported to
    outcome,     \* per job, what _run_strategy returns on inp: a function
                 \* of its arguments alone, evaluated once per run
    quiet,       \* the argument quiet of compete_strategies
    logs,        \* per job, what its strategy prints when it is not
                 \* silenced: as outcome, evaluated once per run
    mpc,         \* where main is: "start", "compete", "final", "exited"
                 \* ("idle": not run), and "parsed" once
                 \* run_nesting_and_get_qty has read the output
    drawing,     \* the modelspace of the DXF file read by main
    args,        \* the command line of main
    stdout,      \* the characters written to the standard output
    exit_code,   \* the exit status of the process, -1 while it runs
    qty          \* what run_nesting_and_get_qty makes of the run

runvars == << job, pc, f, empty_rect, k, t, best, placed, result >>
compvars == << cpc, parallel, futs, results, winner, outcome, quiet, logs >>
mainvars == << mpc, drawing, args, stdout, exit_code, qty >>
vars == << inp, job, pc, f, empty_rect, k, t, best, placed, result,
           cpc, parallel, futs, results, winner, outcome, quiet, logs,
           mpc, drawing, args, stdout, exit_code, qty >>

call == strategy_call(inp, jobs[job].fn_code, jobs[job].alt)

NoLocals == [ pc |-> "none" ]
NoResult == [ name |-> "", placed |-> << >>, util |-> [ num |-> 0, den |-> 1 ] ]
NoWinner == [ best_name |-> "", best_placed |-> << >>,
              best_util |-> [ num |-> 0, den |-> 1 ], best_path |-> "" ]
NoFuts == [ j \in 1..Len(jobs) |-> "none" ]
NoDrawing == [ n_lines |-> 0, bbox_w |-> 0, bbox_h |-> 0, faces |-> << >>, merged |-> << >> ]
NoArgs == [ w |-> 0, h |-> 0, margin |-> 0, out |-> "", count_given |-> FALSE,
            count |-> 0, no_parallel |-> FALSE, verbose |-> FALSE ]
NoQty == [ returned |-> FALSE, raised |-> FALSE, value |-> 0 ]

Init ==
    /\ inp \in Inputs
    /\ job \in 1..Len(jobs)
    /\ pc = "phase1"
    /\ f = p1_locals(strategy_call(inp, jobs[job].fn_code, jobs[job].alt))
    /\ empty_rect = << >>
    /\ k = 0
    /\ t = NoLocals
    /\ best = p2_best_init
    /\ placed = << >>
    /\ result = NoResult
    /\ cpc = "idle"
    /\ parallel = FALSE
    /\ futs = NoFuts
    /\ results = << >>
    /\ winner = NoWinner
    /\ outcome = << >>
    /\ quiet = TRUE
    /\ logs = << >>
    /\ mpc = "idle"
    /\ drawing = NoDrawing
    /\ args = NoArgs
    /\ stdout = << >>
    /\ exit_code = -1
    /\ qty = NoQty

\* fill_phase_1: the seed of a strip
Phase1Seed ==
    /\ pc = "phase1" /\ f.pc = "seed"
    /\ f' = p1_seed(f, call)
    /\ UNCHANGED << inp, job, pc, empty_rect, k, t, best, placed, result >>
    /\ UNCHANGED compvars
    /\ UNCHANGED mainvars

\* fill_phase_1: one pass of the inner loop, with the end of the strip
Phase1Next ==
    /\ pc = "phase1" /\ f.pc = "slide"
    /\ f' = p1_next(f, call)
    /\ UNCHANGED << inp, job, pc, empty_rect, k, t, best, placed, result >>
    /\ UNCHANGED compvars
    /\ UNCHANGED mainvars

\* fill_phase_1 returns; the strategy enters fill_phase_2_smart when the
\* target was missed, which returns at once without a region
Phase1Return ==
    /\ pc = "phase1" /\ f.pc = "end"
    /\ LET er == find_empty_rectangle(call.sheet_w, call.sheet_h, f.placed, call.margin)
       IN IF f.total < call.count /\ Len(f.placed) < call.count /\ er # << >>
          THEN /\ pc' = "phase2"
               /\ empty_rect' = er
               /\ k' = 1
               /\ t' = t_locals(call, f.placed, er)
               /\ best' = p2_best_init
               /\ placed' = f.placed
          ELSE /\ pc' = "return"
               /\ placed' = f.placed
               /\ UNCHANGED << empty_rect, k, t, best >>
    /\ UNCHANGED << inp, job, f, result >>
    /\ UNCHANGED compvars
    /\ UNCHANGED mainvars

\* test_combination: the seed of a strip
ComboSeed ==
    /\ pc = "phase2" /\ t.pc = "seed"
    /\ t' = t_seed(t, call, empty_rect, combinations(call.poly_piece)[k].piece,
                   combinations(call.poly_piece)[k].direction)
    /\ UNCHANGED << inp, job, pc, f, empty_rect, k, best, placed, result >>
    /\ UNCHANGED compvars
    /\ UNCHANGED mainvars

\* test_combination: one pass of the inner loop, with the end of the strip
ComboNext ==
    /\ pc = "phase2" /\ t.pc = "slide"
    /\ t' = t_next(t, call, empty_rect, combinations(call.poly_piece)[k].piece,
                   combinations(call.poly_piece)[k].direction)
    /\ UNCHANGED << inp, job, pc, f, empty_rect, k, best, placed, result >>
    /\ UNCHANGED compvars
    /\ UNCHANGED mainvars

\* mutant: one collision index for the four combinations, the next one
\* starting on the index the previous one left
ComboReturn_shared_index ==
    /\ pc = "phase2" /\ t.pc = "end"
    /\ best' = p2_update(best, t, f.placed)
    /\ IF k < Len(combinations(call.poly_piece))
       THEN /\ k' = k + 1
            /\ t' = [ t_locals(call, f.placed, empty_rect) EXCEPT !.comb_idx = t.comb_idx ]
            /\ UNCHANGED << pc, placed >>
       ELSE /\ pc' = "return"
            /\ placed' = p2_return(p2_update(best, t, f.placed), f.placed)
            /\ UNCHANGED << k, t >>
    /\ UNCHANGED << inp, job, f, empty_rect, result >>
    /\ UNCHANGED compvars
    /\ UNCHANGED mainvars

\* test_combination returns: the best so far is updated, and the next
\* combination starts or fill_phase_2_smart returns
ComboReturn ==
    /\ pc = "phase2" /\ t.pc = "end"
    /\ best' = p2_update(best, t, f.placed)
    /\ IF k < Len(combinations(call.poly_piece))
       THEN /\ k' = k + 1
            /\ t' = t_locals(call, f.placed, empty_rect)
            /\ UNCHANGED << pc, placed >>
       ELSE /\ pc' = "return"
            /\ placed' = p2_return(p2_update(best, t, f.placed), f.placed)
            /\ UNCHANGED << k, t >>
    /\ UNCHANGED << inp, job, f, empty_rect, result >>
    /\ UNCHANGED compvars
    /\ UNCHANGED mainvars

\* the strategy returns placed; _run_strategy adds the utilization
StrategyReturn ==
    /\ pc = "return"
    /\ result' = [ name |-> jobs[job].name, placed |-> placed,
                   util |-> utilization(placed, inp.poly_piece, inp.sheet_w, inp.sheet_h) ]
    /\ pc' = "done"
    /\ UNCHANGED << inp, job, f, empty_rect, k, t, best, placed >>
    /\ UNCHANGED compvars
    /\ UNCHANGED mainvars

Next ==
    \/ Phase1Seed
    \/ Phase1Next
    \/ Phase1Return
    \/ ComboSeed
    \/ ComboNext
    \/ ComboReturn
    \/ StrategyReturn

Spec == Init /\ [][Next]_vars

\* ------------------------------------------------------------------------
\* COMPETICAO: compete_strategies
\* ------------------------------------------------------------------------
\* ------------------------------------------------------------------------
\* The text written by print, character by character. A string is a
\* sequence of one-character strings; a character outside ASCII is written
\* as its unaccented letter, a pictograph as "*".
\* ------------------------------------------------------------------------
DigitChars == << "0", "1", "2", "3", "4", "5", "6", "7", "8", "9" >>

RECURSIVE str_int(_)
\* str(n), as the f-string formats an int
str_int(n) ==
    IF n < 0 THEN << "-" >> \o str_int(0 - n)
    ELSE IF n < 10 THEN << DigitChars[n + 1] >>
         ELSE str_int(n \div 10) \o << DigitChars[(n % 10) + 1] >>

\* num / den rounded to an integer, halves to the even neighbour
round_half_even(num, den) ==
    LET q == num \div den
        r == num % den
    IN IF 2 * r > den THEN q + 1
       ELSE IF 2 * r = den THEN q + (q % 2)
            ELSE q

\* f"{x:.0f}" of x = num / den >= 0
fmt_f0(num, den) == str_int(round_half_even(num, den))

\* f"{x:.1f}" of x = num / den >= 0
fmt_f1(num, den) ==
    LET tenths == round_half_even(10 * num, den)
    IN str_int(tenths \div 10) \o << "." >> \o << DigitChars[(tenths % 10) + 1] >>

\* "c" * n
repeat(c, n) == [ i \in 1..n |-> c ]

\* print(s): the characters of s and a newline
print(s) == s \o << "\n" >>

\* the literal parts of the f-strings
T_segmentos ==
    << " ", "s", "e", "g", "m", "e", "n", "t", "o", "s" >>

T_Bbox ==
    << "*", " ", "B", "b", "o", "x", ":", " " >>

T_x ==
    << "x" >>

T_mm ==
    << "m", "m" >>

T_Furo ==
    << "*", " ", "F", "u", "r", "o", " ", "d", "e", "t", "e", "c", "t", "a",
       "d", "o" >>

T_Poligono ==
    << "*", " ", "P", "o", "l", "i", "g", "o", "n", "o", ":", " " >>

T_mm2 ==
    << "m", "m", "2" >>

T_Buffer ==
    << "*", " ", "B", "u", "f", "f", "e", "r", ".", ".", "." >>

T_Peca ==
    << "*", " ", "P", "e", "c", "a", ":", " " >>

T_mm_Area ==
    << " ", "m", "m", " ", "|", " ", "A", "r", "e", "a", ":", " " >>

T_Chapa ==
    << "*", " ", "C", "h", "a", "p", "a", ":", " " >>

T_CountAuto ==
    << "*", " ", "C", "o", "u", "n", "t", " ", "a", "u", "t", "o", "m", "a",
       "t", "i", "c", "o", ":", " " >>

T_CountAutoTail ==
    << " ", "p", "e", "c", "a", "s", " ", "(", "p", "r", "e", "e", "n", "c",
       "h", "e", "r", "a", " ", "a", "t", "e", " ", "n", "a", "o", " ",
       "c", "a", "b", "e", "r", " ", "m", "a", "i", "s", ")" >>

T_CountDef ==
    << "*", " ", "C", "o", "u", "n", "t", " ", "d", "e", "f", "i", "n", "i",
       "d", "o", ":", " " >>

T_pecas ==
    << " ", "p", "e", "c", "a", "s" >>

T_VENCEDORA ==
    << "*", " ", "V", "E", "N", "C", "E", "D", "O", "R", "A", ":", " " >>

T_Pecas ==
    << " ", " ", " ", "P", "e", "c", "a", "s", ":", " " >>

T_Utilizacao ==
    << " ", " ", " ", "U", "t", "i", "l", "i", "z", "a", "c", "a", "o", ":",
       " " >>

T_Arquivo ==
    << " ", " ", " ", "A", "r", "q", "u", "i", "v", "o", ":", " " >>

T_FINAL ==
    << "*", " ", "F", "I", "N", "A", "L", ":", " " >>

T_pecas_bar ==
    << " ", "p", "e", "c", "a", "s", " ", "|", " " >>

T_ArquivoSalvo ==
    << "*", " ", "A", "r", "q", "u", "i", "v", "o", " ", "s", "a", "l", "v",
       "o", ":", " " >>

T_ESTRATEGIA_H ==
    << "*", " ", "E", "S", "T", "R", "A", "T", "E", "G", "I", "A", ":", " ",
       "H", "o", "r", "i", "z", "o", "n", "t", "a", "l", " ", "+", " ",
       "A", "r", "e", "a", " ", "v", "a", "z", "i", "a", " ", "i", "n",
       "t", "e", "l", "i", "g", "e", "n", "t", "e" >>

T_ESTRATEGIA_V ==
    << "*", " ", "E", "S", "T", "R", "A", "T", "E", "G", "I", "A", ":", " ",
       "V", "e", "r", "t", "i", "c", "a", "l", " ", "+", " ", "A", "r",
       "e", "a", " ", "v", "a", "z", "i", "a", " ", "i", "n", "t", "e",
       "l", "i", "g", "e", "n", "t", "e" >>

T_alternada ==
    << " ", "(", "a", "l", "t", "e", "r", "n", "a", "d", "a", ")" >>

T_FASE1_H ==
    << "*", " ", "F", "A", "S", "E", " ", "1", ":", " ", "P", "r", "e", "e",
       "n", "c", "h", "i", "m", "e", "n", "t", "o", " ", "e", "m", " ",
       "f", "a", "i", "x", "a", "s", " ", "h", "o", "r", "i", "z", "o",
       "n", "t", "a", "i", "s" >>

T_FASE1_V ==
    << "*", " ", "F", "A", "S", "E", " ", "1", ":", " ", "P", "r", "e", "e",
       "n", "c", "h", "i", "m", "e", "n", "t", "o", " ", "e", "m", " ",
       "f", "a", "i", "x", "a", "s", " ", "v", "e", "r", "t", "i", "c",
       "a", "i", "s" >>

T_Fase1 ==
    << " ", " ", " ", "*", " ", "F", "a", "s", "e", " ", "1", ":", " " >>

T_colocadas ==
    << " ", "p", "e", "c", "a", "s", " ", "c", "o", "l", "o", "c", "a", "d",
       "a", "s" >>

T_FASE2 ==
    << "*", " ", "F", "A", "S", "E", " ", "2", ":", " ", "P", "r", "e", "e",
       "n", "c", "h", "i", "m", "e", "n", "t", "o", " ", "i", "n", "t",
       "e", "l", "i", "g", "e", "n", "t", "e", " ", "d", "a", " ", "a",
       "r", "e", "a", " ", "v", "a", "z", "i", "a" >>

T_NenhumaArea ==
    << " ", " ", " ", "*", " ", "N", "e", "n", "h", "u", "m", "a", " ", "a",
       "r", "e", "a", " ", "v", "a", "z", "i", "a", " ", "s", "i", "g",
       "n", "i", "f", "i", "c", "a", "t", "i", "v", "a", " ", "p", "a",
       "r", "a", " ", "p", "r", "e", "e", "n", "c", "h", "e", "r" >>

T_bullet ==
    << " ", " ", " ", " ", " ", " ", "*", " " >>

T_plus ==
    << ":", " ", "+" >>

T_NenhumaComb ==
    << " ", " ", " ", "*", " ", "N", "e", "n", "h", "u", "m", "a", " ", "c",
       "o", "m", "b", "i", "n", "a", "c", "a", "o", " ", "c", "o", "n",
       "s", "e", "g", "u", "i", "u", " ", "a", "d", "i", "c", "i", "o",
       "n", "a", "r", " ", "p", "e", "c", "a", "s" >>

T_MELHOR ==
    << " ", " ", " ", "*", " ", "M", "E", "L", "H", "O", "R", ":", " " >>

T_com ==
    << " ", "c", "o", "m", " ", "+" >>

AutoCountMin == 100

\* the inputs the competition is run on: as main calls it without --count
\* (count = max(int(sheet_area / piece_area), 100)) and with a small count
CompeteInputs ==
    { Input(p, n, m, MaxSheet, h, TRUE) :
        p \in { Rect(2, 2), Rect(3, 2), LShape(3, 3) },
        n \in { MaxTarget, AutoCountMin }, m \in { 1, MaxMargin },
        h \in MinSheet..MaxSheet }

\* max_workers = min(len(jobs), os.cpu_count() or 2)
max_workers == Min2(Len(jobs), CpuCount)

\* mutant: the comparison reversed, as max mistaken for min
key_less_reversed(a, b) ==
    \/ Len(a.placed) > Len(b.placed)
    \/ /\ Len(a.placed) = Len(b.placed)
       /\ a.util.num * b.util.den > b.util.num * a.util.den

\* the key of max: (len(s[1]), s[2]), compared as tuples
key_less(a, b) ==
    \/ Len(a.placed) < Len(b.placed)
    \/ /\ Len(a.placed) = Len(b.placed)
       /\ a.util.num * b.util.den < b.util.num * a.util.den

\* mutant: the last item of greatest key
max_by_key_last(rs) ==
    rs[ CHOOSE i \in 1..Len(rs) :
            /\ \A j \in 1..Len(rs) : ~key_less(rs[i], rs[j])
            /\ \A j \in (i + 1)..Len(rs) : key_less(rs[j], rs[i]) ]

\* max(results, key=...): the first item of greatest key
max_by_key(rs) ==
    rs[ CHOOSE i \in 1..Len(rs) :
            /\ \A j \in 1..Len(rs) : ~key_less(rs[i], rs[j])
            /\ \A j \in 1..(i - 1) : key_less(rs[j], rs[i]) ]

\* next(fname for n, _, _, fname in jobs if n == best_name)
filename_of(best_name) ==
    jobs[ CHOOSE i \in 1..Len(jobs) :
              /\ jobs[i].name = best_name
              /\ \A j \in 1..(i - 1) : jobs[j].name # best_name ].fname

\* a worker process takes the next job of the queue, in submission order
start_next(fs) ==
    IF \E j \in 1..Len(jobs) : fs[j] = "queued"
    THEN LET n == CHOOSE j \in 1..Len(jobs) :
                      /\ fs[j] = "queued"
                      /\ \A i \in 1..(j - 1) : fs[i] # "queued"
         IN [ fs EXCEPT ![n] = "running" ]
    ELSE fs

\* the characters of the names printed: of the strategies, of their files,
\* of the combinations of phase 2 and of the default output directory
chars(s) ==
    CASE s = "Horizontal + Smart" ->
       << "H", "o", "r", "i", "z", "o", "n", "t", "a", "l", " ", "+", " ",
          "S", "m", "a", "r", "t" >>
      [] s = "Vertical + Smart" ->
       << "V", "e", "r", "t", "i", "c", "a", "l", " ", "+", " ", "S", "m",
          "a", "r", "t" >>
      [] s = "Horizontal + Smart (alt)" ->
       << "H", "o", "r", "i", "z", "o", "n", "t", "a", "l", " ", "+", " ",
          "S", "m", "a", "r", "t", " ", "(", "a", "l", "t", ")" >>
      [] s = "Vertical + Smart (alt)" ->
       << "V", "e", "r", "t", "i", "c", "a", "l", " ", "+", " ", "S", "m",
          "a", "r", "t", " ", "(", "a", "l", "t", ")" >>
      [] s = "Horizontal 90 + Smart" ->
       << "H", "o", "r", "i", "z", "o", "n", "t", "a", "l", " ", "9", "0",
          " ", "+", " ", "S", "m", "a", "r", "t" >>
      [] s = "Vertical 90 + Smart" ->
       << "V", "e", "r", "t", "i", "c", "a", "l", " ", "9", "0", " ", "+",
          " ", "S", "m", "a", "r", "t" >>
      [] s = "Horizontal 90 + Smart (alt)" ->
       << "H", "o", "r", "i", "z", "o", "n", "t", "a", "l", " ", "9", "0",
          " ", "+", " ", "S", "m", "a", "r", "t", " ", "(", "a", "l", "t",
          ")" >>
      [] s = "Vertical 90 + Smart (alt)" ->
       << "V", "e", "r", "t", "i", "c", "a", "l", " ", "9", "0", " ", "+",
          " ", "S", "m", "a", "r", "t", " ", "(", "a", "l", "t", ")" >>
      [] s = "winner_horizontal_smart.dxf" ->
       << "w", "i", "n", "n", "e", "r", "_", "h", "o", "r", "i", "z", "o",
          "n", "t", "a", "l", "_", "s", "m", "a", "r", "t", ".", "d", "x",
          "f" >>
      [] s = "winner_vertical_smart.dxf" ->
       << "w", "i", "n", "n", "e", "r", "_", "v", "e", "r", "t", "i", "c",
          "a", "l", "_", "s", "m", "a", "r", "t", ".", "d", "x", "f" >>
      [] s = "winner_horizontal_smart_alt.dxf" ->
       << "w", "i", "n", "n", "e", "r", "_", "h", "o", "r", "i", "z", "o",
          "n", "t", "a", "l", "_", "s", "m", "a", "r", "t", "_", "a", "l",
          "t", ".", "d", "x", "f" >>
      [] s = "winner_vertical_smart_alt.dxf" ->
       << "w", "i", "n", "n", "e", "r", "_", "v", "e", "r", "t", "i", "c",
          "a", "l", "_", "s", "m", "a", "r", "t", "_", "a", "l", "t", ".",
          "d", "x", "f" >>
      [] s = "winner_horizontal90_smart.dxf" ->
       << "w", "i", "n", "n", "e", "r", "_", "h", "o", "r", "i", "z", "o",
          "n", "t", "a", "l", "9", "0", "_", "s", "m", "a", "r", "t", ".",
          "d", "x", "f" >>
      [] s = "winner_vertical90_smart.dxf" ->
       << "w", "i", "n", "n", "e", "r", "_", "v", "e", "r", "t", "i", "c",
          "a", "l", "9", "0", "_", "s", "m", "a", "r", "t", ".", "d", "x",
          "f" >>
      [] s = "winner_horizontal90_smart_alt.dxf" ->
       << "w", "i", "n", "n", "e", "r", "_", "h", "o", "r", "i", "z", "o",
          "n", "t", "a", "l", "9", "0", "_", "s", "m", "a", "r", "t", "_",
          "a", "l", "t", ".", "d", "x", "f" >>
      [] s = "winner_vertical90_smart_alt.dxf" ->
       << "w", "i", "n", "n", "e", "r", "_", "v", "e", "r", "t", "i", "c",
          "a", "l", "9", "0", "_", "s", "m", "a", "r", "t", "_", "a", "l",
          "t", ".", "d", "x", "f" >>
      [] s = "original 0 + horizontal" ->
       << "o", "r", "i", "g", "i", "n", "a", "l", " ", "0", " ", "+", " ",
          "h", "o", "r", "i", "z", "o", "n", "t", "a", "l" >>
      [] s = "original 0 + vertical" ->
       << "o", "r", "i", "g", "i", "n", "a", "l", " ", "0", " ", "+", " ",
          "v", "e", "r", "t", "i", "c", "a", "l" >>
      [] s = "rotacionada 90 + horizontal" ->
       << "r", "o", "t", "a", "c", "i", "o", "n", "a", "d", "a", " ", "9",
          "0", " ", "+", " ", "h", "o", "r", "i", "z", "o", "n", "t", "a",
          "l" >>
      [] s = "rotacionada 90 + vertical" ->
       << "r", "o", "t", "a", "c", "i", "o", "n", "a", "d", "a", " ", "9",
          "0", " ", "+", " ", "v", "e", "r", "t", "i", "c", "a", "l" >>
      [] s = "outputs_nesting" ->
       << "o", "u", "t", "p", "u", "t", "s", "_", "n", "e", "s", "t", "i",
          "n", "g" >>

\* os.path.join(output_dir, best_filename)
path_join(output_dir, filename) == chars(output_dir) \o << "/" >> \o chars(filename)

\* result_added of the kk-th combination of phase 2
added_by(c, placed_phase1, er, kk) ==
    LET cb == combinations(c.poly_piece)[kk]
    IN test_combination(c, placed_phase1, er, cb.piece, cb.direction).test_total
       - Len(placed_phase1)

RECURSIVE combination_lines(_, _, _, _)
\* the line of each combination of phase 2: its name and what it added
combination_lines(c, placed_phase1, er, kk) ==
    IF kk > Len(combinations(c.poly_piece)) THEN << >>
    ELSE print(T_bullet \o chars(combinations(c.poly_piece)[kk].name) \o T_plus
               \o str_int(added_by(c, placed_phase1, er, kk)) \o T_pecas)
         \o combination_lines(c, placed_phase1, er, kk + 1)

RECURSIVE best_config(_, _, _, _, _)
\* best_config: the name of the first combination that added best_count
best_config(c, placed_phase1, er, best_count, kk) ==
    IF added_by(c, placed_phase1, er, kk) = best_count
    THEN combinations(c.poly_piece)[kk].name
    ELSE best_config(c, placed_phase1, er, best_count, kk + 1)

\* what fill_phase_2_smart prints about pieces: its title, the line of
\* each combination and the best one; the lines of find_empty_rectangle
\* and the two size lines are left out
phase_2_log(c, placed_phase1) ==
    LET er == find_empty_rectangle(c.sheet_w, c.sheet_h, placed_phase1, c.margin)
    IN print(<< "\n" >> \o T_FASE2)
       \o (IF er = << >> THEN print(T_NenhumaArea)
           ELSE LET best_count == p2_loop(c, placed_phase1, er, 1, p2_best_init).best_count
                IN combination_lines(c, placed_phase1, er, 1)
                   \o (IF best_count = 0 THEN print(T_NenhumaComb)
                       ELSE print(<< "\n" >> \o T_MELHOR
                                  \o chars(best_config(c, placed_phase1, er, best_count, 1))
                                  \o T_com \o str_int(best_count) \o T_pecas)))

\* what the strategy of job j prints when it is not silenced: the banner,
\* the two lines of fill_phase_1 and those of fill_phase_2_smart
strategy_log(in, j) ==
    LET c == strategy_call(in, jobs[j].fn_code, jobs[j].alt)
        p1 == fill_phase_1(c)
    IN print(<< "\n" >> \o repeat("=", 60))
       \o print((IF c.direction = "x" THEN T_ESTRATEGIA_H ELSE T_ESTRATEGIA_V)
                \o (IF c.alternate_180 THEN T_alternada ELSE << >>))
       \o print(repeat("=", 60))
       \o print(<< "\n" >> \o (IF c.direction = "x" THEN T_FASE1_H ELSE T_FASE1_V))
       \o print(T_Fase1 \o str_int(p1.total) \o T_colocadas)
       \o (IF ~(p1.total < c.count) THEN << >> ELSE phase_2_log(c, p1.placed))

\* the block compete_strategies prints about the winner
winner_block(w, output_dir) ==
    print(<< "\n" >> \o repeat("*", 30))
    \o print(T_VENCEDORA \o chars(w.name))
    \o print(T_Pecas \o str_int(Len(w.placed)))
    \o print(T_Utilizacao \o fmt_f1(w.util.num, w.util.den) \o << "%" >>)
    \o print(T_Arquivo \o path_join(output_dir, filename_of(w.name)))
    \o print(repeat("*", 30) \o << "\n" >>)

RECURSIVE strategy_logs(_, _)
\* the sequence of what each strategy prints, from job j on
strategy_logs(in, j) ==
    IF j > Len(jobs) THEN << >>
    ELSE << strategy_log(in, j) >> \o strategy_logs(in, j + 1)

RECURSIVE sequential_log(_, _)
\* what the strategies print when they are run one after the other
sequential_log(ls, j) ==
    IF j > Len(jobs) THEN << >> ELSE ls[j] \o sequential_log(ls, j + 1)

InitCompete ==
    /\ inp \in CompeteInputs
    /\ parallel \in BOOLEAN
    /\ cpc = "start"
    /\ futs = NoFuts
    /\ results = << >>
    /\ winner = NoWinner
    /\ outcome = [ j \in 1..Len(jobs) |->
                     _run_strategy(jobs[j].name, jobs[j].fn_code, inp, jobs[j].alt) ]
    /\ quiet = TRUE
    /\ logs = << >>
    /\ job = 0
    /\ pc = "idle"
    /\ f = NoLocals
    /\ empty_rect = << >>
    /\ k = 0
    /\ t = NoLocals
    /\ best = p2_best_init
    /\ placed = << >>
    /\ result = NoResult
    /\ mpc = "idle"
    /\ drawing = NoDrawing
    /\ args = [ NoArgs EXCEPT !.out = "outputs_nesting" ]
    /\ stdout = << >>
    /\ exit_code = -1
    /\ qty = NoQty

\* results = []; in parallel mode the pool is created and the 8 jobs are
\* submitted, of which max_workers start at once
CompeteStart ==
    /\ cpc = "start"
    /\ IF parallel
       THEN /\ cpc' = "collect"
            /\ futs' = [ j \in 1..Len(jobs) |->
                           IF j <= max_workers THEN "running" ELSE "queued" ]
       ELSE /\ cpc' = "sequential"
            /\ futs' = futs
    /\ UNCHANGED << inp, parallel, results, winner, outcome, quiet, logs >>
    /\ UNCHANGED runvars
    /\ UNCHANGED mainvars

\* the pool cannot be set up: the except clause
PoolBroken ==
    /\ cpc = "start" /\ parallel
    /\ parallel' = FALSE
    /\ cpc' = "sequential"
    /\ UNCHANGED << inp, futs, results, winner, outcome, quiet, logs >>
    /\ UNCHANGED runvars
    /\ UNCHANGED mainvars

\* worker j completes, as_completed yields its future and the result is
\* appended; the freed process starts the next queued job
WorkerFinish(j) ==
    /\ cpc = "collect" /\ futs[j] = "running"
    /\ results' = Append(results, outcome[j])
    /\ futs' = start_next([ futs EXCEPT ![j] = "finished" ])
    /\ UNCHANGED << inp, cpc, parallel, winner, outcome, quiet, logs >>
    /\ UNCHANGED runvars
    /\ stdout' = (IF quiet THEN stdout ELSE stdout \o logs[j])
    /\ UNCHANGED << mpc, drawing, args, exit_code, qty >>

\* worker j raises: f.result() raises in the loop, the with block waits
\* for the pool to shut down and the except clause sets parallel = False
WorkerRaise(j) ==
    /\ cpc = "collect" /\ futs[j] = "running"
    /\ futs' = [ i \in 1..Len(jobs) |->
                   IF i = j THEN "raised"
                   ELSE IF futs[i] = "finished" THEN "finished" ELSE "dropped" ]
    /\ parallel' = FALSE
    /\ cpc' = "sequential"
    /\ UNCHANGED << inp, results, winner, outcome, quiet, logs >>
    /\ UNCHANGED runvars
    /\ UNCHANGED mainvars

\* mutant: the loop ends at the first future yielded
PoolJoin_first_completed ==
    /\ cpc = "collect"
    /\ \E j \in 1..Len(jobs) : futs[j] = "finished"
    /\ cpc' = "reduce"
    /\ UNCHANGED << inp, parallel, futs, results, winner, outcome, quiet, logs >>
    /\ UNCHANGED runvars
    /\ UNCHANGED mainvars

\* every future was yielded: the loop and the with block end
PoolJoin ==
    /\ cpc = "collect"
    /\ \A j \in 1..Len(jobs) : futs[j] = "finished"
    /\ cpc' = "reduce"
    /\ UNCHANGED << inp, parallel, futs, results, winner, outcome, quiet, logs >>
    /\ UNCHANGED runvars
    /\ UNCHANGED mainvars

\* if not parallel: the 8 strategies run one after the other, in the
\* order of jobs, each result appended to results
SequentialRun ==
    /\ cpc = "sequential"
    /\ ~parallel
    /\ results' = results \o [ j \in 1..Len(jobs) |-> outcome[j] ]
    /\ cpc' = "reduce"
    /\ UNCHANGED << inp, parallel, futs, winner, outcome, quiet, logs >>
    /\ UNCHANGED runvars
    /\ stdout' = (IF quiet THEN stdout ELSE stdout \o sequential_log(logs, 1))
    /\ UNCHANGED << mpc, drawing, args, exit_code, qty >>

\* the best is chosen and exported, and returned
Reduce ==
    /\ cpc = "reduce"
    /\ LET b == max_by_key(results)
       IN winner' = [ best_name |-> b.name, best_placed |-> b.placed,
                      best_util |-> b.util, best_path |-> filename_of(b.name) ]
    /\ cpc' = "done"
    /\ UNCHANGED << inp, parallel, futs, results, outcome, quiet, logs >>
    /\ UNCHANGED runvars
    /\ stdout' = stdout \o winner_block(max_by_key(results), args.out)
    /\ UNCHANGED << mpc, drawing, args, exit_code, qty >>

NextCompete ==
    \/ CompeteStart
    \/ PoolBroken
    \/ \E j \in 1..Len(jobs) : WorkerFinish(j)
    \/ \E j \in 1..Len(jobs) : WorkerRaise(j)
    \/ PoolJoin
    \/ SequentialRun
    \/ Reduce

SpecCompete == InitCompete /\ [][NextCompete]_vars

\* ------------------------------------------------------------------------
\* create_closed_polygon. The modelspace is what the libraries make of it:
\* n_lines, the number of LineStrings collect_all_lines returns; bbox_w and
\* bbox_h, the extent of their coordinates; faces, the polygons of
\* polygonize; merged, the polygons of the union of the lines buffered by
\* snap_tolerance, each with its holes filled (empty when the tolerance
\* is 0)
\* ------------------------------------------------------------------------
\* max(polys, key=lambda p: p.area): the first polygon of greatest area
largest_of(polys) ==
    polys[ CHOOSE i \in 1..Len(polys) :
               /\ \A j \in 1..Len(polys) : area(polys[j]) <= area(polys[i])
               /\ \A j \in 1..(i - 1) : area(polys[j]) < area(polys[i]) ]

\* mutant: a face of exactly 1% of the bounding box is taken for a hole
create_closed_polygon_hole_le(msp) ==
    IF msp.n_lines = 0 THEN [ poly |-> {}, out |-> << >> ]
    ELSE LET head == print(<< "*", " " >> \o str_int(msp.n_lines) \o T_segmentos)
                     \o print(T_Bbox \o str_int(msp.bbox_w) \o T_x
                              \o str_int(msp.bbox_h) \o T_mm)
             hole == /\ msp.faces # << >>
                     /\ 100 * area(largest_of(msp.faces)) <= msp.bbox_w * msp.bbox_h
         IN IF msp.faces # << >> /\ ~hole
            THEN [ poly |-> largest_of(msp.faces),
                   out |-> head \o print(T_Poligono
                                         \o str_int(area(largest_of(msp.faces)))
                                         \o T_mm2) ]
            ELSE LET pre == head \o (IF hole THEN print(T_Furo) ELSE << >>)
                            \o print(T_Buffer)
                 IN IF msp.merged = << >> THEN [ poly |-> {}, out |-> pre ]
                    ELSE LET lg == largest_of(msp.merged)
                             b == bounds(lg)
                         IN [ poly |-> lg,
                              out |-> pre \o print(<< "*", " " >> \o str_int(b[3] - b[1])
                                                   \o T_x \o str_int(b[4] - b[2])
                                                   \o T_mm) ]

\* the polygon returned ({} for None and for the empty polygon, both of
\* which main takes for no polygon) and the text printed on the way
create_closed_polygon(msp) ==
    IF msp.n_lines = 0 THEN [ poly |-> {}, out |-> << >> ]
    ELSE LET head == print(<< "*", " " >> \o str_int(msp.n_lines) \o T_segmentos)
                     \o print(T_Bbox \o str_int(msp.bbox_w) \o T_x
                              \o str_int(msp.bbox_h) \o T_mm)
             hole == /\ msp.faces # << >>
                     /\ 100 * area(largest_of(msp.faces)) < msp.bbox_w * msp.bbox_h
         IN IF msp.faces # << >> /\ ~hole
            THEN [ poly |-> largest_of(msp.faces),
                   out |-> head \o print(T_Poligono
                                         \o str_int(area(largest_of(msp.faces)))
                                         \o T_mm2) ]
            ELSE LET pre == head \o (IF hole THEN print(T_Furo) ELSE << >>)
                            \o print(T_Buffer)
                 IN IF msp.merged = << >> THEN [ poly |-> {}, out |-> pre ]
                    ELSE LET lg == largest_of(msp.merged)
                             b == bounds(lg)
                         IN [ poly |-> lg,
                              out |-> pre \o print(<< "*", " " >> \o str_int(b[3] - b[1])
                                                   \o T_x \o str_int(b[4] - b[2])
                                                   \o T_mm) ]

\* ------------------------------------------------------------------------
\* gui_nest_time.py: FINAL_REGEX and run_nesting_and_get_qty
\* ------------------------------------------------------------------------
IsSpace(c) == c \in { " ", "\n", "\t", "\r" }
IsDigit(c) == c \in { DigitChars[i] : i \in 1..10 }

\* the end of the longest run of white space, or of digits, from p on
skip_space(s, p) ==
    CHOOSE q \in p..(Len(s) + 1) :
        /\ \A i \in p..(q - 1) : IsSpace(s[i])
        /\ q <= Len(s) => ~IsSpace(s[q])

skip_digits(s, p) ==
    CHOOSE q \in p..(Len(s) + 1) :
        /\ \A i \in p..(q - 1) : IsDigit(s[i])
        /\ q <= Len(s) => ~IsDigit(s[q])

\* mutant: the pattern without its anchor, (\d+)\s*pe
FINAL_REGEX_match_unanchored(s, p) ==
    IF ~IsDigit(s[p]) THEN [ ok |-> FALSE, group1 |-> << >> ]
    ELSE LET a == p
             b == skip_digits(s, a)
             c == skip_space(s, b)
         IN [ ok |-> /\ b > a
                     /\ c + 1 <= Len(s)
                     /\ s[c] \in { "p", "P" }
                     /\ s[c + 1] \in { "e", "E" },
              group1 |-> SubSeq(s, a, b - 1) ]

\* FINAL:\s*(\d+)\s*pe with IGNORECASE, tried at position p. Each greedy
\* part takes its longest run: a shorter one leaves a character of the
\* same class in front of the next part, which cannot match it.
FINAL_REGEX_match(s, p) ==
    IF ~(/\ p + 5 <= Len(s)
         /\ s[p] \in { "f", "F" }
         /\ s[p + 1] \in { "i", "I" }
         /\ s[p + 2] \in { "n", "N" }
         /\ s[p + 3] \in { "a", "A" }
         /\ s[p + 4] \in { "l", "L" }
         /\ s[p + 5] = ":")
    THEN [ ok |-> FALSE, group1 |-> << >> ]
    ELSE LET a == skip_space(s, p + 6)
             b == skip_digits(s, a)
             c == skip_space(s, b)
         IN [ ok |-> /\ b > a
                     /\ c + 1 <= Len(s)
                     /\ s[c] \in { "p", "P" }
                     /\ s[c + 1] \in { "e", "E" },
              group1 |-> SubSeq(s, a, b - 1) ]

\* FINAL_REGEX.search(s): the match at the leftmost position that has one
FINAL_REGEX_search(s) ==
    IF \E p \in 1..Len(s) : FINAL_REGEX_match(s, p).ok
    THEN LET p == CHOOSE q \in 1..Len(s) :
                      /\ FINAL_REGEX_match(s, q).ok
                      /\ \A i \in 1..(q - 1) : ~FINAL_REGEX_match(s, i).ok
         IN [ found |-> TRUE, group1 |-> FINAL_REGEX_match(s, p).group1 ]
    ELSE [ found |-> FALSE, group1 |-> << >> ]

\* the digit a character stands for
digit_of(c) == (CHOOSE i \in 1..10 : DigitChars[i] = c) - 1

RECURSIVE int_of(_)
\* int(m.group(1)) of a non-empty run of digits
int_of(ds) ==
    IF Len(ds) = 1 THEN digit_of(ds[1])
    ELSE 10 * int_of(SubSeq(ds, 1, Len(ds) - 1)) + digit_of(ds[Len(ds)])

\* run_nesting_and_get_qty on a finished process: RuntimeError on a
\* return code other than 0 and on an output without the pattern
run_nesting_and_get_qty(returncode, proc_stdout, proc_stderr) ==
    IF returncode # 0 THEN [ returned |-> FALSE, raised |-> TRUE, value |-> 0 ]
    ELSE LET full_output == proc_stdout \o << "\n" >> \o proc_stderr
             m == FINAL_REGEX_search(full_output)
         IN IF ~m.found THEN [ returned |-> FALSE, raised |-> TRUE, value |-> 0 ]
            ELSE [ returned |-> TRUE, raised |-> FALSE, value |-> int_of(m.group1) ]

\* ------------------------------------------------------------------------
\* main, from the drawing and the command line to the exit of the process,
\* and run_nesting_and_get_qty on what it wrote
\* ------------------------------------------------------------------------
\* a closed outline at (1, 1): polygonize yields its face
Closed(piece) ==
    [ n_lines |-> 4, bbox_w |-> bounds(piece)[3], bbox_h |-> bounds(piece)[4],
      faces |-> << shp_translate(piece, 1, 1) >>,
      merged |-> << Rect(bounds(piece)[3] + 2, bounds(piece)[4] + 2) >> ]

Drawings ==
    { \* no entity that yields a line
      NoDrawing,
      \* closed outlines: a square, an L, a bar too long for the sheet
      Closed(Rect(1, 1)),
      Closed(LShape(MaxPiece, MaxPiece)),
      Closed(Rect(MaxSheet + 1, 2)),
      \* an open outline of a 1 x 1 square: no face, the buffer closes it
      [ n_lines |-> 3, bbox_w |-> 1, bbox_h |-> 1, faces |-> << >>,
        merged |-> << Rect(3, 3) >> ],
      \* the same with snap_tolerance 0: the buffers are empty
      [ n_lines |-> 3, bbox_w |-> 1, bbox_h |-> 1, faces |-> << >>,
        merged |-> << >> ],
      \* a 1 x 1 hole far from an open outline: the face is below 1% of
      \* the bounding box, the union has two parts
      [ n_lines |-> 7, bbox_w |-> 51, bbox_h |-> 2,
        faces |-> << shp_translate(Rect(1, 1), 50, 0) >>,
        merged |-> << Rect(3, 3), shp_translate(Rect(3, 4), 49, 1) >> ],
      \* the same hole when nothing is left by the buffer
      [ n_lines |-> 7, bbox_w |-> 51, bbox_h |-> 2,
        faces |-> << shp_translate(Rect(1, 1), 50, 0) >>,
        merged |-> << >> ],
      \* a 2 x 2 square and a stray line: the face is exactly 1% of the
      \* bounding box
      [ n_lines |-> 5, bbox_w |-> 20, bbox_h |-> 20,
        faces |-> << shp_translate(Rect(2, 2), 18, 18) >>,
        merged |-> << Rect(3, 3), shp_translate(Rect(4, 4), 17, 17) >> ] }

\* the command lines: every combination of --count, --verbose on the
\* sequential path; on the pool, the command line of
\* run_nesting_and_get_qty (no --count, no --verbose) and one with both
MainArgs ==
    { [ w |-> MaxSheet, h |-> MinSheet, margin |-> 1, out |-> "outputs_nesting",
        count_given |-> cg, count |-> IF cg THEN 3 ELSE 0,
        no_parallel |-> np, verbose |-> vb ] :
        cg \in BOOLEAN, np \in BOOLEAN, vb \in BOOLEAN }
    \ { [ w |-> MaxSheet, h |-> MinSheet, margin |-> 1, out |-> "outputs_nesting",
          count_given |-> cg, count |-> IF cg THEN 3 ELSE 0,
          no_parallel |-> FALSE, verbose |-> ~cg ] : cg \in BOOLEAN }

\* the arguments main passes to compete_strategies for a polygon
main_call(a, poly_env) ==
    Input(poly_env,
          IF a.count_given THEN a.count
          ELSE Max2((a.w * a.h) \div area(poly_env), AutoCountMin),
          a.margin, a.w, a.h, TRUE)

\* per job, what _run_strategy returns in the run of main on the drawing,
\* none when main stops before the competition
worker_outcomes(a, msp) ==
    LET r == create_closed_polygon(msp)
    IN IF r.poly = {} THEN << >>
       ELSE [ j \in 1..Len(jobs) |->
                _run_strategy(jobs[j].name, jobs[j].fn_code,
                              main_call(a, normalize_polygon(r.poly)), jobs[j].alt) ]

\* per job, what its strategy prints in the run of main, with --verbose
worker_logs(a, msp) ==
    LET r == create_closed_polygon(msp)
    IN IF r.poly = {} \/ ~a.verbose THEN << >>
       ELSE strategy_logs(main_call(a, normalize_polygon(r.poly)), 1)

\* the drawings run with the pool as well as without it
PoolDrawings ==
    { d \in Drawings :
        \/ create_closed_polygon(d).poly = {}
        \/ d = Closed(LShape(MaxPiece, MaxPiece)) }

\* the runs of main: a drawing and a command line
MainRuns ==
    { r \in Drawings \X MainArgs : r[2].no_parallel \/ r[1] \in PoolDrawings }

InitMain ==
    /\ \E r \in MainRuns :
           /\ drawing = r[1]
           /\ args = r[2]
    /\ mpc = "start"
    /\ stdout = << >>
    /\ exit_code = -1
    /\ qty = NoQty
    /\ inp = Input({}, 0, 0, 0, 0, TRUE)
    /\ cpc = "idle"
    /\ parallel = FALSE
    /\ quiet = TRUE
    /\ outcome = worker_outcomes(args, drawing)
    /\ logs = worker_logs(args, drawing)
    /\ futs = NoFuts
    /\ results = << >>
    /\ winner = NoWinner
    /\ job = 0
    /\ pc = "idle"
    /\ f = NoLocals
    /\ empty_rect = << >>
    /\ k = 0
    /\ t = NoLocals
    /\ best = p2_best_init
    /\ placed = << >>
    /\ result = NoResult

\* what main prints between the extraction and the competition
main_header(a, poly_env) ==
    LET b == bounds(poly_env)
        c == main_call(a, poly_env)
    IN print(T_Peca \o fmt_f1(b[3] - b[1], 1) \o T_x \o fmt_f1(b[4] - b[2], 1)
             \o T_mm_Area \o str_int(area(poly_env)) \o T_mm2)
       \o print(T_Chapa \o str_int(a.w) \o T_x \o str_int(a.h)
                \o T_mm_Area \o str_int(a.w * a.h) \o T_mm2)
       \o (IF a.count_given
           THEN print(T_CountDef \o str_int(c.count) \o T_pecas)
           ELSE print(T_CountAuto \o str_int(c.count) \o T_CountAutoTail))
       \o print(repeat("=", 60))

\* mutant: without a polygon main returns instead of sys.exit(1)
MainStart_return ==
    /\ mpc = "start"
    /\ LET r == create_closed_polygon(drawing)
           poly_env == normalize_polygon(r.poly)
       IN IF r.poly = {}
          THEN /\ stdout' = print(repeat("=", 60)) \o r.out
               /\ exit_code' = 0
               /\ mpc' = "exited"
               /\ UNCHANGED << inp, cpc, parallel, quiet, outcome, logs >>
          ELSE /\ stdout' = print(repeat("=", 60)) \o r.out \o main_header(args, poly_env)
               /\ mpc' = "compete"
               /\ cpc' = "start"
               /\ inp' = main_call(args, poly_env)
               /\ parallel' = ~args.no_parallel
               /\ quiet' = ~args.verbose
               /\ UNCHANGED << exit_code, outcome, logs >>
    /\ UNCHANGED << drawing, args, qty, futs, results, winner >>
    /\ UNCHANGED runvars

\* main up to its call of compete_strategies, or to sys.exit(1) when
\* create_closed_polygon gives no polygon
MainStart ==
    /\ mpc = "start"
    /\ LET r == create_closed_polygon(drawing)
           poly_env == normalize_polygon(r.poly)
       IN IF r.poly = {}
          THEN /\ stdout' = print(repeat("=", 60)) \o r.out
               /\ exit_code' = 1
               /\ mpc' = "exited"
               /\ UNCHANGED << inp, cpc, parallel, quiet, outcome, logs >>
          ELSE /\ stdout' = print(repeat("=", 60)) \o r.out \o main_header(args, poly_env)
               /\ mpc' = "compete"
               /\ cpc' = "start"
               /\ inp' = main_call(args, poly_env)
               /\ parallel' = ~args.no_parallel
               /\ quiet' = ~args.verbose
               /\ UNCHANGED << exit_code, outcome, logs >>
    /\ UNCHANGED << drawing, args, qty, futs, results, winner >>
    /\ UNCHANGED runvars

\* mutant: a run that placed nothing ends as a failure
MainFinal_fail_on_empty ==
    /\ mpc = "compete" /\ cpc = "done"
    /\ stdout' = stdout
                 \o print(T_FINAL \o str_int(Len(winner.best_placed)) \o T_pecas_bar
                          \o fmt_f1(winner.best_util.num, winner.best_util.den)
                          \o << "%" >>)
                 \o print(T_ArquivoSalvo \o path_join(args.out, winner.best_path))
                 \o print(repeat("=", 60))
    /\ exit_code' = IF winner.best_placed = << >> THEN 1 ELSE 0
    /\ mpc' = "exited"
    /\ UNCHANGED << drawing, args, qty, inp >>
    /\ UNCHANGED compvars
    /\ UNCHANGED runvars

\* compete_strategies has returned: the summary, and the process ends
MainFinal ==
    /\ mpc = "compete" /\ cpc = "done"
    /\ stdout' = stdout
                 \o print(T_FINAL \o str_int(Len(winner.best_placed)) \o T_pecas_bar
                          \o fmt_f1(winner.best_util.num, winner.best_util.den)
                          \o << "%" >>)
                 \o print(T_ArquivoSalvo \o path_join(args.out, winner.best_path))
                 \o print(repeat("=", 60))
    /\ exit_code' = 0
    /\ mpc' = "exited"
    /\ UNCHANGED << drawing, args, qty, inp >>
    /\ UNCHANGED compvars
    /\ UNCHANGED runvars

\* run_nesting_and_get_qty reads the return code and the output of the
\* process it started
GetQty ==
    /\ mpc = "exited"
    /\ qty' = run_nesting_and_get_qty(exit_code, stdout, << >>)
    /\ mpc' = "parsed"
    /\ UNCHANGED << drawing, args, stdout, exit_code, inp >>
    /\ UNCHANGED compvars
    /\ UNCHANGED runvars

NextMain ==
    \/ MainStart
    \/ CompeteStart
    \/ PoolBroken
    \/ \E j \in 1..Len(jobs) : WorkerFinish(j)
    \/ \E j \in 1..Len(jobs) : WorkerRaise(j)
    \/ PoolJoin
    \/ SequentialRun
    \/ Reduce
    \/ MainFinal
    \/ GetQty

SpecMain == InitMain /\ [][NextMain]_vars


\* ========================================================================
\* Properties
\* ========================================================================
\* the bounding box b lies inside [x1, x2] x [y1, y2]
BoxInside(b, x1, y1, x2, y2) ==
    /\ x1 <= b[1] /\ y1 <= b[2] /\ b[3] <= x2 /\ b[4] <= y2

\* every pair of distinct placements of the list is at least d apart
PairwiseGap(ps, d) ==
    \A i \in 1..Len(ps) : \A j \in 1..Len(ps) :
        i # j => Dist2(ps[i], ps[j]) >= d * d

\* C1: in the placement list a strategy returns, the gap between the
\* outlines of any two distinct placements is at least margin.
C1_GapAtLeastMargin ==
    pc = "done" => PairwiseGap(result.placed, inp.margin)

\* C2: every placement of fill_phase_1 has its bounding box inside the
\* sheet, and every placement a phase-2 combination adds (or phase 2
\* returns) has its bounding box inside the active empty region, which
\* lies inside the sheet.
C2_PlacementsInBounds ==
    /\ pc # "idle" =>
          \A i \in 1..Len(f.placed) :
              BoxInside(bounds(f.placed[i]), 0, 0, inp.sheet_w, inp.sheet_h)
    /\ empty_rect # << >> =>
          /\ BoxInside(<< empty_rect[1], empty_rect[2],
                          empty_rect[1] + empty_rect[3], empty_rect[2] + empty_rect[4] >>,
                       0, 0, inp.sheet_w, inp.sheet_h)
          /\ pc = "phase2" =>
                \A i \in (Len(f.placed) + 1)..Len(t.test_placed) :
                    BoxInside(bounds(t.test_placed[i]), empty_rect[1], empty_rect[2],
                              empty_rect[1] + empty_rect[3], empty_rect[2] + empty_rect[4])
    /\ pc \in { "return", "done" } =>
          \A i \in (Len(f.placed) + 1)..Len(placed) :
              /\ empty_rect # << >>
              /\ BoxInside(bounds(placed[i]), empty_rect[1], empty_rect[2],
                           empty_rect[1] + empty_rect[3], empty_rect[2] + empty_rect[4])

\* the number of strips the placements of a fill in direction d lie in
Strips(ps, d) ==
    Cardinality({ bounds(ps[i])[IF d = "x" THEN 2 ELSE 1] : i \in 1..Len(ps) })

\* C2 witness: a finished run whose phase 1 filled at least two strips
\* and whose phase 2 added a piece
C2_Witness ==
    /\ pc = "done"
    /\ Len(result.placed) > Len(f.placed)
    /\ Strips(f.placed, call.direction) >= 2

\* the origins (minimum corners) of the placements of a list
Origins(ps) == { << bounds(ps[i])[1], bounds(ps[i])[2] >> : i \in 1..Len(ps) }

\* the placements of the list form a grid of cols columns and rows rows
IsGrid(ps, cols, rows) ==
    LET xs == { o[1] : o \in Origins(ps) }
        ys == { o[2] : o \in Origins(ps) }
    IN /\ Cardinality(xs) = cols
       /\ Cardinality(ys) = rows
       /\ Origins(ps) = xs \X ys
       /\ Len(ps) = cols * rows

\* C3: Scenario A: the horizontal strategy without alternation returns
\* exactly 100 placements in a 10 x 10 grid, and its utilization is 100%.
C3_ScenarioA ==
    (inp \in ScenarioA /\ job = 1 /\ pc = "done") =>
        /\ Len(result.placed) = 100
        /\ IsGrid(result.placed, 10, 10)
        /\ result.util.num = 100 * result.util.den

\* C4: Scenario B: fill_phase_1 in the horizontal direction without
\* alternation places exactly 6 pieces as 3 columns x 2 rows, and phase 2
\* adds no piece.
C4_ScenarioB ==
    (inp \in ScenarioB /\ job = 1 /\ pc \in { "return", "done" }) =>
        /\ f.total = 6
        /\ Len(f.placed) = 6
        /\ IsGrid(f.placed, 3, 2)
        /\ placed = f.placed

\* C4 witness: Scenario B has run to its end
C4_Witness ==
    inp \in ScenarioB /\ job = 1 /\ pc = "done" /\ Len(result.placed) = 6

\* the competition has chosen its winner
Reduced == cpc = "done"

\* a is at least b under (count, then utilization)
UtilGeq(a, b) == a.num * b.den >= b.num * a.den

\* C5: the winner's placement count is at least that of every one of the
\* 8 strategy results, and among the results of that count its
\* utilization is the greatest.
C5_WinnerIsMax ==
    Reduced =>
        /\ \E i \in 1..Len(results) :
               /\ results[i].name = winner.best_name
               /\ results[i].placed = winner.best_placed
               /\ results[i].util = winner.best_util
        /\ \A j \in 1..Len(jobs) :
               /\ Len(winner.best_placed) >= Len(outcome[j].placed)
               /\ Len(winner.best_placed) = Len(outcome[j].placed) =>
                      UtilGeq(winner.best_util, outcome[j].util)
        /\ \A i \in 1..Len(results) :
               /\ Len(winner.best_placed) >= Len(results[i].placed)
               /\ Len(winner.best_placed) = Len(results[i].placed) =>
                      UtilGeq(winner.best_util, results[i].util)

\* C5 witness: a winner was chosen among results of different counts, the
\* first one collected not being the best
C5_Witness ==
    /\ Reduced
    /\ Len(results[1].placed) < Len(winner.best_placed)
    /\ results[1].name # jobs[1].name

\* the winner compete_strategies returns when the workers complete in the
\* order of jobs
JobsOrderWinner == max_by_key(outcome)

\* C6: in parallel mode the same winner is selected for every order in
\* which the workers complete: the same strategy name, placement list and
\* export file name as for the order of jobs, ties in count included.
C6_WinnerSameForEveryOrder ==
    (Reduced /\ parallel) =>
        /\ winner.best_name = JobsOrderWinner.name
        /\ winner.best_placed = JobsOrderWinner.placed
        /\ winner.best_path = filename_of(JobsOrderWinner.name)

\* a worker raised during the parallel competition
WorkerFailed == \E j \in 1..Len(jobs) : futs[j] = "raised"

\* C7: after a worker raised, the results the winner is reduced from are
\* exactly the 8 sequential results, one per strategy, whatever was
\* collected before the failure being discarded.
C7_FallbackDiscardsCollected ==
    (cpc \in { "reduce", "done" } /\ WorkerFailed) =>
        /\ Len(results) = Len(jobs)
        /\ \A j \in 1..Len(jobs) : results[j] = outcome[j]

\* C8: in a parallel run without worker failure the winner is chosen only
\* after all 8 workers have completed, from a result set holding exactly
\* one result per strategy.
C8_ReduceAfterAllWorkers ==
    ((cpc \in { "reduce", "done" } \/ winner # NoWinner) /\ parallel) =>
        /\ \A j \in 1..Len(jobs) : futs[j] = "finished"
        /\ Len(results) = Len(jobs)
        /\ \A j \in 1..Len(jobs) :
               Cardinality({ i \in 1..Len(results) : results[i].name = jobs[j].name }) = 1

\* C8 witness: a parallel run without failure has chosen its winner, the
\* workers having completed in another order than that of jobs
C8_Witness ==
    /\ Reduced /\ parallel
    /\ winner # NoWinner
    /\ \E j \in 1..Len(jobs) : results[j].name # jobs[j].name

\* the number of placements the strategy of the run achieves with another
\* target, everything else unchanged
AchievedWith(target) ==
    Len(_run_strategy(jobs[job].name, jobs[job].fn_code,
                      [ inp EXCEPT !.count = target ], jobs[job].alt).placed)

\* C9: for a fixed strategy, piece, sheet and margin, a target T2 >= T1
\* achieves at least as many placements as T1, phase 1 and phase 2 counted
\* together. Checked from each target T1 of 1..MaxTarget to T1 + 1, which
\* gives every pair T1 <= T2 of 1..MaxTarget + 1 by transitivity.
C9_MonotoneInTarget ==
    (pc = "done" /\ inp.count <= MaxTarget) =>
        AchievedWith(inp.count + 1) >= Len(result.placed)

\* C9 witness: a run that reached its target in phase 2, so that a greater
\* target has pieces to gain or to lose
C9_Witness ==
    /\ pc = "done"
    /\ Len(result.placed) = inp.count
    /\ Len(result.placed) > Len(f.placed)
    /\ inp.count < MaxTarget

RECURSIVE SumArea(_, _)
\* the area the placements i.. of the list cover
SumArea(ps, i) == IF i > Len(ps) THEN 0 ELSE area(ps[i]) + SumArea(ps, i + 1)

\* C10: the utilization _run_strategy reports is (number of placements x
\* piece area) / (sheet_w x sheet_h) x 100, also for the strategies that
\* pack the piece rotated by 90 degrees; it is the share of the sheet the
\* placements cover.
C10_Utilization ==
    pc = "done" =>
        /\ result.util.den = inp.sheet_w * inp.sheet_h
        /\ result.util.num = Len(result.placed) * area(inp.poly_piece) * 100
        /\ result.util.num = SumArea(result.placed, 1) * 100

\* C10 witness: a strategy that packs the rotated piece has returned
\* placements of a piece that is no rectangle
C10_Witness ==
    /\ pc = "done"
    /\ jobs[job].fn_code \in { "H90", "V90" }
    /\ Len(result.placed) >= 2
    /\ Cardinality(inp.poly_piece) > 1

\* what _run_strategy returns for the strategy of the run on the input in
ReturnedOn(in) ==
    _run_strategy(jobs[job].name, jobs[job].fn_code, in, jobs[job].alt)

\* C11: a strategy run is a function of (piece, sheet, margin, target,
\* strategy parameters): every run on the same inputs ends with the same
\* placement list, in the same order, and the same utilization, whether
\* or not the environment provides the spatial index.
C11_Deterministic ==
    pc = "done" =>
        /\ result = ReturnedOn(inp)
        /\ result = ReturnedOn([ inp EXCEPT !.have_rtree = ~@ ])

\* C11 witness: a finished run of both phases whose pieces touched
\* bounding boxes on the way (margin 0) and that placed several pieces
C11_Witness ==
    /\ pc = "done"
    /\ Len(f.placed) >= 2
    /\ Len(result.placed) > Len(f.placed)

\* the candidates the collision test is tried on: every piece, in both
\* orientations, at the offsets 0..MaxPiece
Candidates ==
    { shp_translate(g, x, y) :
        g \in Pieces \cup { normalize_polygon(shp_rotate90(p)) : p \in Pieces },
        x \in 0..MaxPiece, y \in 0..MaxPiece }

\* C15: a CollisionIndex on which add was never called returns false from
\* collides for every candidate, whatever the margin.
C15_EmptyIndexNeverCollides ==
    (pc = "phase1" /\ f.coll_idx.count = 0) =>
        /\ f.coll_idx.items = << >>
        /\ \A cand \in Candidates : ~collides(f.coll_idx, cand)

\* C15 witness: the index of a run with a margin, before its first add
C15_Witness ==
    /\ pc = "phase1"
    /\ f.coll_idx.count = 0
    /\ inp.margin > 0
    /\ f.pc = "seed"
    /\ fits_sheet(inp.sheet_w, inp.sheet_h, inp.poly_piece)

\* C16: the number of placements never exceeds the target: not in phase 1,
\* not in a phase-2 combination, not in what the strategy returns; and
\* phase 2 is entered only when phase 1 placed fewer pieces than the
\* target.
C16_NeverAboveTarget ==
    /\ pc # "idle" => (f.total <= inp.count /\ Len(f.placed) = f.total)
    /\ pc = "phase2" =>
           /\ Len(f.placed) < inp.count
           /\ t.test_total <= inp.count
           /\ Len(t.test_placed) = t.test_total
    /\ pc \in { "return", "done" } => Len(placed) <= inp.count
    /\ pc = "done" => Len(result.placed) <= inp.count

\* C16 witness: a run that reached its target inside a phase-2
\* combination
C16_Witness ==
    /\ pc = "phase2"
    /\ t.test_total = inp.count
    /\ t.test_total > Len(f.placed)

\* what the k-th combination of phase 2 returns on the placements of
\* phase 1 and the region of the run
CombinationOf(kk) ==
    LET cb == combinations(call.poly_piece)[kk]
    IN test_combination(call, f.placed, empty_rect, cb.piece, cb.direction)

AddedBy(kk) == CombinationOf(kk).test_total - Len(f.placed)

\* the earliest position, in the order of the two loops, among those of
\* the greatest number in adds
EarliestBest(adds) ==
    CHOOSE kk \in 1..Len(adds) :
        /\ \A j \in 1..Len(adds) : adds[j] <= adds[kk]
        /\ \A j \in 1..(kk - 1) : adds[j] < adds[kk]

\* C17: fill_phase_2_smart returns the placements of phase 1, unchanged
\* and in order, followed by the additions of the combination that added
\* the most, the earliest one of the order original/horizontal,
\* original/vertical, rotated/horizontal, rotated/vertical on a tie; when
\* every combination adds 0 (or phase 2 finds no region) it returns the
\* list of phase 1 itself.
C17_Phase2Return ==
    pc = "done" =>
        /\ SubSeq(placed, 1, Len(f.placed)) = f.placed
        /\ empty_rect = << >> => placed = f.placed
        /\ empty_rect # << >> =>
               LET adds == << AddedBy(1), AddedBy(2), AddedBy(3), AddedBy(4) >>
                   kb == EarliestBest(adds)
               IN IF adds[kb] = 0 THEN placed = f.placed
                  ELSE /\ placed = CombinationOf(kb).test_placed
                       /\ Len(placed) = Len(f.placed) + adds[kb]

\* C17 witness: two combinations tie for the most additions with different
\* lists, and the list of the earlier one is returned
C17_Witness ==
    /\ pc = "done"
    /\ empty_rect # << >>
    /\ LET adds == << AddedBy(1), AddedBy(2), AddedBy(3), AddedBy(4) >>
           kb == EarliestBest(adds)
       IN /\ adds[kb] > 0
          /\ \E j \in (kb + 1)..4 :
                 /\ adds[j] = adds[kb]
                 /\ CombinationOf(j).test_placed # CombinationOf(kb).test_placed
          /\ placed = CombinationOf(kb).test_placed

\* C18: each of the four combinations is evaluated against a collision
\* index that holds exactly the placements of phase 1 plus the additions
\* of that combination: a combination starts on the placements of phase 1
\* alone, each of its steps adds at most its own new piece, and the list
\* of phase 1 is never changed.
C18_CombinationIsolation ==
    [][ pc' = "phase2" =>
          /\ f' = f
          /\ placed' = f.placed
          /\ t'.comb_idx.items = t'.test_placed
          /\ t'.comb_idx.count = Len(t'.test_placed)
          /\ SubSeq(t'.test_placed, 1, Len(f.placed)) = f.placed
          /\ (pc # "phase2" \/ k' # k) =>
                 /\ t'.comb_idx.items = f.placed
                 /\ t'.comb_idx = add_all(CollisionIndex(call.margin, call.have_rtree),
                                          f.placed, 1)
          /\ (pc = "phase2" /\ k' = k) =>
                 \/ t'.comb_idx = t.comb_idx
                 \/ /\ Len(t'.test_placed) = Len(t.test_placed) + 1
                    /\ t'.comb_idx = add(t.comb_idx, t'.test_placed[Len(t'.test_placed)])
      ]_vars

\* C18 witness: a later combination adds a piece after an earlier one
\* added pieces of its own
C18_Witness ==
    /\ pc = "phase2"
    /\ k >= 2
    /\ best.best_count > 0
    /\ t.test_total > Len(f.placed)
    /\ t.comb_idx.items = t.test_placed

\* the aggregate bounding box of the placements of phase 1 and the three
\* regions around it, as <<x, y, w, h>>
AggMaxX == SetMax({ bounds(f.placed[i])[3] : i \in 1..Len(f.placed) })
AggMaxY == SetMax({ bounds(f.placed[i])[4] : i \in 1..Len(f.placed) })

RightRegion ==
    << AggMaxX + inp.margin, 0, inp.sheet_w - AggMaxX - inp.margin, inp.sheet_h >>

BelowRegion ==
    << 0, AggMaxY + inp.margin, AggMaxX, inp.sheet_h - AggMaxY - inp.margin >>

CornerRegion ==
    << AggMaxX + inp.margin, AggMaxY + inp.margin,
       inp.sheet_w - AggMaxX - inp.margin, inp.sheet_h - AggMaxY - inp.margin >>

\* a region of positive extent whose area is strictly more than 5% of the
\* area of the sheet
Qualifying(r) ==
    /\ r[3] > 0
    /\ r[4] > 0
    /\ 100 * (r[3] * r[4]) > 5 * (inp.sheet_w * inp.sheet_h)

QualifyingRegions == { r \in { RightRegion, BelowRegion, CornerRegion } : Qualifying(r) }

\* C19: find_empty_rectangle returns a region only if one of the three
\* candidates (right of the aggregate box at full sheet height, below it
\* from x = 0 to its right edge, the corner) has an area strictly above 5%
\* of the sheet; the region returned is a qualifying candidate of the
\* largest area; with no qualifying candidate, or no piece placed, it
\* returns nothing and phase 2 adds no piece.
C19_EmptyRectangle ==
    (pc \in { "phase2", "return", "done" } /\ f.total < inp.count) =>
        /\ f.placed = << >> => empty_rect = << >>
        /\ f.placed # << >> =>
               /\ (empty_rect = << >>) <=> (QualifyingRegions = {})
               /\ empty_rect # << >> =>
                      /\ empty_rect \in QualifyingRegions
                      /\ \A r \in QualifyingRegions :
                             r[3] * r[4] <= empty_rect[3] * empty_rect[4]
        /\ (empty_rect = << >> /\ pc \in { "return", "done" }) => placed = f.placed

\* C19 witness: the region below is returned although the region on the
\* right qualifies too, being the larger one
C19_Witness ==
    /\ pc = "done"
    /\ f.placed # << >>
    /\ f.total < inp.count
    /\ empty_rect = BelowRegion
    /\ Qualifying(RightRegion)
    /\ RightRegion[3] * RightRegion[4] < BelowRegion[3] * BelowRegion[4]

\* the piece of the run as fill_phase_1 receives it, and the same piece
\* turned by 180 degrees, both brought to the origin
UprightPiece == normalize_polygon(call.poly_piece)
TurnedPiece == normalize_polygon(shp_rotate180(UprightPiece))

\* C20: in fill_phase_1 with alternate set, the k-th placement (k from 0,
\* counted across all strips) is the piece turned by 180 degrees exactly
\* when k is odd; with alternate unset every placement is the upright
\* piece.
C20_Alternation ==
    pc # "idle" =>
        \A i \in 1..Len(f.placed) :
            normalize_polygon(f.placed[i]) =
                IF jobs[job].alt /\ (i - 1) % 2 = 1 THEN TurnedPiece ELSE UprightPiece

\* C20 witness: a piece that differs from its turned self, alternate set,
\* and a strip that starts with a turned piece because the strips before
\* it hold an odd number of pieces
C20_Witness ==
    /\ pc = "done"
    /\ jobs[job].alt
    /\ TurnedPiece # UprightPiece
    /\ \E i \in 2..Len(f.placed) :
           /\ (i - 1) % 2 = 1
           /\ normalize_polygon(f.placed[i]) = TurnedPiece
           /\ IF call.direction = "x"
              THEN bounds(f.placed[i])[1] = 0 /\ bounds(f.placed[i])[2] > 0
              ELSE bounds(f.placed[i])[2] = 0 /\ bounds(f.placed[i])[1] > 0

\* the positions of the output at which the pattern of the consumer
\* matches, and the lines that hold one
FinalMatches == { p \in 1..Len(stdout) : FINAL_REGEX_match(stdout, p).ok }

LineOf(p) == Cardinality({ i \in 1..(p - 1) : stdout[i] = "\n" })

FinalLines == { LineOf(p) : p \in FinalMatches }

\* C12: a successful run prints exactly one line matching
\* 'FINAL: <integer> pe', the integer is the placement count of the
\* winner, and run_nesting_and_get_qty returns exactly that integer; a run
\* that fails the extraction of the contour prints no such line.
C12_FinalLine ==
    /\ (mpc \in { "exited", "parsed" } /\ exit_code = 0) =>
           /\ Cardinality(FinalLines) = 1
           /\ \A p \in FinalMatches :
                  /\ FINAL_REGEX_match(stdout, p).group1
                         = str_int(Len(winner.best_placed))
                  /\ int_of(FINAL_REGEX_match(stdout, p).group1)
                         = Len(winner.best_placed)
           /\ mpc = "parsed" =>
                  /\ qty.returned
                  /\ ~qty.raised
                  /\ qty.value = Len(winner.best_placed)
    /\ (mpc \in { "exited", "parsed" } /\ exit_code # 0) =>
           /\ FinalMatches = {}
           /\ mpc = "parsed" => (qty.raised /\ ~qty.returned)

\* C12 witness: the consumer has read a count of two digits from a run
\* without --count, whose output names the target of 100 pieces before
C12_Witness ==
    /\ mpc = "parsed"
    /\ exit_code = 0
    /\ ~args.count_given
    /\ qty.returned
    /\ qty.value >= 10
    /\ qty.value = Len(winner.best_placed)
    /\ qty.value # inp.count

\* the drawing gives no usable polygon: no line at all, or no face of at
\* least 1% of the bounding box and nothing left by the buffer
NoUsablePolygon ==
    \/ drawing.n_lines = 0
    \/ /\ \A i \in 1..Len(drawing.faces) :
              100 * area(drawing.faces[i]) < drawing.bbox_w * drawing.bbox_h
       /\ drawing.merged = << >>

\* C13: when the extraction of the contour yields no usable polygon the
\* process ends with a non-zero exit status and compete_strategies is
\* never invoked: no strategy runs, no file is exported and no FINAL line
\* is printed.
C13_NoPolygonExit ==
    (mpc # "idle" /\ NoUsablePolygon) =>
        /\ mpc \in { "start", "exited", "parsed" }
        /\ mpc \in { "exited", "parsed" } => exit_code # 0
        /\ cpc = "idle"
        /\ futs = NoFuts
        /\ results = << >>
        /\ winner = NoWinner
        /\ FinalMatches = {}

\* C13 witness: a drawing with lines but no polygon, the process ended
\* and the consumer raised
C13_Witness ==
    /\ NoUsablePolygon
    /\ drawing.n_lines > 0
    /\ mpc = "parsed"
    /\ exit_code = 1
    /\ qty.raised

\* the piece main nests fits the sheet neither as drawn nor turned by 90
\* degrees (turning by 180 degrees keeps the bounding box)
FitsInNoOrientation ==
    /\ inp.poly_piece # {}
    /\ LET b == bounds(inp.poly_piece)
           pw == b[3] - b[1]
           ph == b[4] - b[2]
       IN /\ ~(pw <= inp.sheet_w /\ ph <= inp.sheet_h)
          /\ ~(ph <= inp.sheet_w /\ pw <= inp.sheet_h)

\* C14: with a valid polygon that fits the sheet in no orientation, every
\* strategy returns an empty list, a winner is still selected and
\* exported, 'FINAL: 0' is reported and the exit status is 0.
C14_NothingFits ==
    (mpc \in { "compete", "exited", "parsed" } /\ FitsInNoOrientation) =>
        /\ \A j \in 1..Len(jobs) : outcome[j].placed = << >>
        /\ \A i \in 1..Len(results) : results[i].placed = << >>
        /\ cpc = "done" =>
               /\ winner # NoWinner
               /\ winner.best_placed = << >>
               /\ winner.best_path \in { jobs[j].fname : j \in 1..Len(jobs) }
        /\ mpc \in { "exited", "parsed" } =>
               /\ exit_code = 0
               /\ Cardinality(FinalLines) = 1
               /\ \A p \in FinalMatches :
                      FINAL_REGEX_match(stdout, p).group1 = << "0" >>
        /\ mpc = "parsed" => (qty.returned /\ qty.value = 0)

\* C14 witness: the run on the bar longer than the sheet ended, and the
\* consumer read 0
C14_Witness ==
    /\ mpc = "parsed"
    /\ exit_code = 0
    /\ FitsInNoOrientation
    /\ winner.best_path # ""
    /\ qty.returned
    /\ qty.value = 0

\* ------------------------------------------------------------------------
\* The slide search
\* ------------------------------------------------------------------------
\* the template of the pass of the inner loop of fill_phase_1 about to run:
\* the piece of the running counter at the origin of the bounding box of
\* the previous placement
SlideTemplate ==
    shp_translate(current_piece(normalize_polygon(call.poly_piece),
                                call.alternate_180, f.piece_counter),
                  bounds(f.base_geom)[1], bounds(f.base_geom)[2])

\* the template moved by the offset in mm along the axis of the strip
AtOffset(g, off) ==
    shp_translate(g, IF call.direction = "x" THEN off ELSE 0,
                     IF call.direction = "y" THEN off ELSE 0)

InSheet(g) ==
    /\ bounds(g)[1] >= 0
    /\ bounds(g)[2] >= 0
    /\ bounds(g)[3] <= call.sheet_w
    /\ bounds(g)[4] <= call.sheet_h

\* every even offset below off stayed in the sheet and collided
AllBelowCollide(g, idx, off) ==
    \A j \in 0..((off \div 2) - 1) :
        /\ InSheet(AtOffset(g, 2 * j))
        /\ collides(idx, AtOffset(g, 2 * j))

\* the offsets the search can try: 0, 2, 4, ... below 20000
SlideOffsets == { 2 * j : j \in 0..9999 }

\* C21: within a strip of fill_phase_1 the slide search starts at the
\* origin of the bounding box of the previous placement and tries the
\* offsets 0, 2, 4, ... mm along the axis of the strip: the piece it places
\* is the candidate of the smallest offset that does not collide, every
\* smaller offset having stayed inside the sheet; it places nothing and
\* the strip ends when a candidate leaves the sheet (or the offset reaches
\* 20000 mm) before a free offset is found.
C21_SlideSearch ==
    [][ (pc = "phase1" /\ f.pc = "slide" /\ f.total < call.count) =>
          /\ bounds(SlideTemplate)[1] = bounds(f.placed[Len(f.placed)])[1]
          /\ bounds(SlideTemplate)[2] = bounds(f.placed[Len(f.placed)])[2]
          /\ IF f'.total = f.total + 1
             THEN /\ f'.pc = "slide"
                  /\ \E off \in SlideOffsets :
                         /\ f'.placed = Append(f.placed, AtOffset(SlideTemplate, off))
                         /\ InSheet(AtOffset(SlideTemplate, off))
                         /\ ~collides(f.coll_idx, AtOffset(SlideTemplate, off))
                         /\ AllBelowCollide(SlideTemplate, f.coll_idx, off)
             ELSE /\ f'.placed = f.placed
                  /\ f'.pc = "seed"
                  /\ \E off \in SlideOffsets \cup { 20000 } :
                         /\ off = 20000 \/ ~InSheet(AtOffset(SlideTemplate, off))
                         /\ AllBelowCollide(SlideTemplate, f.coll_idx, off)
      ]_vars

\* C21 witness: in a second strip, after the search placed a piece in the
\* first one, it is about to run again and will accept an offset it
\* reaches only after collisions
C21_Witness ==
    /\ pc = "phase1"
    /\ f.pc = "slide"
    /\ f.total < call.count
    /\ Len(f.placed) >= 3
    /\ bounds(f.placed[2])[IF call.direction = "x" THEN 1 ELSE 2] > 0
    /\ bounds(f.placed[Len(f.placed)])[IF call.direction = "x" THEN 1 ELSE 2] = 0
    /\ \E off \in { 2 * j : j \in 1..MaxSheet } :
           /\ InSheet(AtOffset(SlideTemplate, off))
           /\ ~collides(f.coll_idx, AtOffset(SlideTemplate, off))
           /\ AllBelowCollide(SlideTemplate, f.coll_idx, off)

\* ------------------------------------------------------------------------
\* Termination of a strategy run
\* ------------------------------------------------------------------------
\* a strategy is running: one of the actions of Next can be taken, and
\* taking it changes the state
Running == pc \in { "phase1", "phase2", "return" }

\* ENABLED <<Next>>_vars, action by action: the statement the strategy is
\* at can be executed and changes the state (a return always does)
CanStep ==
    \/ pc = "phase1" /\ f.pc = "seed" /\ p1_seed(f, call) # f
    \/ pc = "phase1" /\ f.pc = "slide" /\ p1_next(f, call) # f
    \/ pc = "phase1" /\ f.pc = "end"
    \/ pc = "phase2" /\ t.pc = "seed"
          /\ t_seed(t, call, empty_rect, combinations(call.poly_piece)[k].piece,
                    combinations(call.poly_piece)[k].direction) # t
    \/ pc = "phase2" /\ t.pc = "slide"
          /\ t_next(t, call, empty_rect, combinations(call.poly_piece)[k].piece,
                    combinations(call.poly_piece)[k].direction) # t
    \/ pc = "phase2" /\ t.pc = "end"
    \/ pc = "return"

\* the interpreter keeps executing the statements of a running strategy:
\* weak fairness of Next, WF_vars(Next), with ENABLED <<Next>>_vars
\* written out as Running
Fairness == []<>(~Running) \/ []<><<Next>>_vars

SpecLive == Init /\ [][Next]_vars /\ Fairness

\* the passes of the slide search that placed the last piece of a strip of
\* at least two pieces: one per offset tried, the accepted one included
SlidePasses(ps, direction) ==
    LET i == IF direction = "x" THEN 1 ELSE 2
    IN (bounds(ps[Len(ps)])[i] - bounds(ps[Len(ps) - 1])[i]) \div step + 1

\* C22: a running strategy can always take a step that changes its state,
\* every slide search ends after at most 10000 passes, every pass of the
\* outer strip loop of fill_phase_1 and of a combination of phase 2 either
\* places a piece or leaves the loop, no step takes a piece back or goes
\* past the target, and every strategy run ends.
C22_Terminates ==
    /\ [](Running => CanStep)
    /\ [][ /\ (pc = "phase1" /\ f.pc = "seed") =>
                  \/ f'.total = f.total + 1 /\ f'.pc = "slide"
                  \/ f'.total = f.total /\ f'.pc = "end"
           /\ (pc = "phase1" /\ f.pc = "slide") =>
                  \/ /\ f'.total = f.total + 1
                     /\ f'.total <= call.count
                     /\ SlidePasses(f'.placed, call.direction) <= 10000
                  \/ f'.total = f.total /\ f'.pc = "seed"
           /\ (pc = "phase2" /\ t.pc = "seed") =>
                  \/ t'.test_total = t.test_total + 1 /\ t'.pc = "slide"
                  \/ t'.test_total = t.test_total /\ t'.pc = "end"
           /\ (pc = "phase2" /\ t.pc = "slide") =>
                  \/ /\ t'.test_total = t.test_total + 1
                     /\ t'.test_total <= call.count
                     /\ SlidePasses(t'.test_placed,
                                    combinations(call.poly_piece)[k].direction) <= 10000
                  \/ t'.test_total = t.test_total /\ t'.pc \in { "seed", "end" }
           /\ (pc = "phase2" /\ t.pc = "end") => (k' = k + 1 \/ pc' = "return")
         ]_vars
    /\ <>(pc = "done")

\* C22 witness: a run ended after fill_phase_1 started a strip that could
\* not take its seed and the combinations of phase 2 ran
C22_Witness ==
    /\ pc = "done"
    /\ f.pc = "end"
    /\ f.total < call.count
    /\ empty_rect # << >>
    /\ k = 4
    /\ Len(result.placed) > Len(f.placed)

\* ------------------------------------------------------------------------
\* The extraction of the contour
\* ------------------------------------------------------------------------
\* the text sub occurs in the text s
Contains(s, sub) ==
    \E p \in 1..(Len(s) - Len(sub) + 1) : SubSeq(s, p, p + Len(sub) - 1) = sub

\* the polygons of the list of the greatest area
LargestIn(polys) ==
    { polys[i] : i \in { j \in 1..Len(polys) :
                           \A m \in 1..Len(polys) : area(polys[m]) <= area(polys[j]) } }

\* polygonize assembled a face, and the largest one covers at least 1% of
\* the bounding box of the segments
FaceUsable ==
    /\ drawing.faces # << >>
    /\ \E g \in LargestIn(drawing.faces) :
           100 * area(g) >= drawing.bbox_w * drawing.bbox_h

\* C23: create_closed_polygon fails at once without input segments;
\* otherwise it returns the largest assembled face when that face covers
\* at least 1% of the bounding box, and in every other case (no face, or
\* the largest face below 1%) it goes on to the fallback of buffer and
\* union, failing only when the fallback yields no polygon either. Seen
\* from main: a failure is the exit with status 1, a polygon is the piece
\* handed to compete_strategies.
C23_ExtractContour ==
    [][ mpc = "start" =>
          /\ drawing.n_lines = 0 =>
                 /\ mpc' = "exited" /\ exit_code' = 1
                 /\ ~Contains(stdout', T_segmentos)
                 /\ ~Contains(stdout', T_Buffer)
          /\ (drawing.n_lines > 0 /\ FaceUsable) =>
                 /\ mpc' = "compete"
                 /\ ~Contains(stdout', T_Buffer)
                 /\ \E g \in LargestIn(drawing.faces) :
                        inp'.poly_piece = normalize_polygon(g)
          /\ (drawing.n_lines > 0 /\ ~FaceUsable) =>
                 /\ Contains(stdout', T_Buffer)
                 /\ drawing.merged = << >> => (mpc' = "exited" /\ exit_code' = 1)
                 /\ drawing.merged # << >> =>
                        /\ mpc' = "compete"
                        /\ \E g \in LargestIn(drawing.merged) :
                               inp'.poly_piece = normalize_polygon(g)
      ]_vars

\* C23 witness: the largest face was below 1% of the bounding box and the
\* competition runs on the largest part of the union of the buffers
C23_Witness ==
    /\ mpc = "compete"
    /\ drawing.faces # << >>
    /\ ~FaceUsable
    /\ Len(drawing.merged) = 2
    /\ Contains(stdout, T_Furo)
    /\ inp.poly_piece = Rect(3, 4)

\* ------------------------------------------------------------------------
\* The two paths of CollisionIndex.collides
\* ------------------------------------------------------------------------
\* the index with and without the spatial index of the rtree package
WithRtree(idx) == [ idx EXCEPT !.rtree = TRUE ]
WithoutRtree(idx) == [ idx EXCEPT !.rtree = FALSE ]

\* the inflated bounding box of a stored piece (doubled coordinates) and
\* the bounding box of the candidate have no point in common: on one axis
\* the greater of the lower ends lies past the smaller of the upper ends
StrictlyDisjoint(b, cand) ==
    LET c == bounds(cand)
    IN \/ Max2(b[1], 2 * c[1]) > Min2(b[3], 2 * c[3])
       \/ Max2(b[2], 2 * c[2]) > Min2(b[4], 2 * c[4])

\* the candidates the two paths are compared on: the piece of the run as
\* the strategy takes it and turned by 90 degrees, at the offsets
\* 0..MaxPiece + 1
RunCandidates ==
    { shp_translate(g, x, y) :
        g \in { normalize_polygon(call.poly_piece),
                normalize_polygon(shp_rotate90(call.poly_piece)) },
        x \in 0..(MaxPiece + 1), y \in 0..(MaxPiece + 1) }

\* the two paths agree on every candidate, and the fallback skips a stored
\* piece exactly when the boxes are strictly disjoint, which the exact test
\* would have rejected as well
PathsAgree(idx) ==
    \A cand \in RunCandidates :
        /\ collides(WithRtree(idx), cand) = collides(WithoutRtree(idx), cand)
        /\ \A i \in 1..Len(idx.bounds) :
               /\ bbox_skip(idx.bounds[i], cand) = StrictlyDisjoint(idx.bounds[i], cand)
               /\ bbox_skip(idx.bounds[i], cand) => ~prep_intersects(idx.items_buf[i], cand)

\* C24: on the index left by fill_phase_1 and by the first combination of
\* phase 2 (the sequences of add calls the runs make; a run with the
\* spatial index makes the same calls as the run without it), collides
\* returns the same boolean for every candidate with the spatial index as
\* with the linear scan, whose bounding-box pre-check skips a stored piece
\* only when its inflated bounding box and the bounding box of the
\* candidate are strictly disjoint.
C24_IndexPathsAgree ==
    /\ (pc = "phase1" /\ f.pc = "end" /\ inp.have_rtree) => PathsAgree(f.coll_idx)
    /\ (pc = "phase2" /\ t.pc = "end" /\ k = 1 /\ inp.have_rtree) =>
           PathsAgree(t.comb_idx)

\* C24 witness: an index of several pieces and a candidate whose bounding
\* box only touches the inflated box of a stored piece, which both paths
\* report as a collision
C24_Witness ==
    /\ pc = "phase1"
    /\ f.pc = "end"
    /\ inp.have_rtree
    /\ f.coll_idx.count >= 2
    /\ \E cand \in RunCandidates :
           \E i \in 1..Len(f.coll_idx.bounds) :
               /\ ~bbox_skip(f.coll_idx.bounds[i], cand)
               /\ bbox_skip_touching(f.coll_idx.bounds[i], cand)
               /\ prep_intersects(f.coll_idx.items_buf[i], cand)
               /\ collides(WithRtree(f.coll_idx), cand)
               /\ collides(WithoutRtree(f.coll_idx), cand)
               /\ \A j \in 1..Len(f.coll_idx.bounds) :
                      j # i => ~prep_intersects(f.coll_idx.items_buf[j], cand)

\* ------------------------------------------------------------------------
\* Placements are rigid transforms of the piece
\* ------------------------------------------------------------------------
\* width and height of the bounding box
BoxW(g) == bounds(g)[3] - bounds(g)[1]
BoxH(g) == bounds(g)[4] - bounds(g)[2]

\* the piece turned by 0, 90, 180 and 270 degrees, each moved to the
\* origin: x and y exchanged and mirrored, part by part
Turns(piece) ==
    LET p0 == normalize_polygon(piece)
        W == BoxW(p0)
        H == BoxH(p0)
    IN { p0,
         { << H - r[4], r[1], H - r[2], r[3] >> : r \in p0 },
         { << W - r[3], H - r[4], W - r[1], H - r[2] >> : r \in p0 },
         { << r[2], W - r[3], r[4], W - r[1] >> : r \in p0 } }

\* g is the piece turned by a multiple of 90 degrees and moved, its
\* bounding box piece_w x piece_h or piece_h x piece_w
RigidCopy(g, piece) ==
    LET p0 == normalize_polygon(piece)
    IN /\ \/ BoxW(g) = BoxW(p0) /\ BoxH(g) = BoxH(p0)
          \/ BoxW(g) = BoxH(p0) /\ BoxH(g) = BoxW(p0)
       /\ area(g) = area(p0)
       /\ normalize_polygon(g) \in Turns(piece)

\* C25: every placement of fill_phase_1, of a combination of phase 2 and
\* of the result of a strategy is a rigid transform of the input piece: its
\* bounding box measures piece_w x piece_h or piece_h x piece_w, piece_w
\* and piece_h being the dimensions of the normalized input piece, its
\* area is the area of the piece, and it is the piece turned by a multiple
\* of 90 degrees and moved; nothing is scaled.
C25_RigidPlacements ==
    /\ (pc = "phase1" /\ f.pc = "end") =>
           \A i \in 1..Len(f.placed) : RigidCopy(f.placed[i], inp.poly_piece)
    /\ (pc = "phase2" /\ t.pc = "end") =>
           \A i \in 1..Len(t.test_placed) : RigidCopy(t.test_placed[i], inp.poly_piece)
    /\ pc = "done" =>
           \A i \in 1..Len(result.placed) : RigidCopy(result.placed[i], inp.poly_piece)

\* C25 witness: the result of a rot90 strategy on an oblong piece holds a
\* placement as wide as the piece is high and, from phase 2, one as wide
\* as the piece is wide
C25_Witness ==
    /\ pc = "done"
    /\ jobs[job].fn_code \in { "H90", "V90" }
    /\ BoxW(inp.poly_piece) # BoxH(inp.poly_piece)
    /\ \E i \in 1..Len(result.placed) :
           /\ BoxW(result.placed[i]) = BoxH(inp.poly_piece)
           /\ BoxH(result.placed[i]) = BoxW(inp.poly_piece)
    /\ \E i \in 1..Len(result.placed) :
           /\ BoxW(result.placed[i]) = BoxW(inp.poly_piece)
           /\ BoxH(result.placed[i]) = BoxH(inp.poly_piece)

\* ------------------------------------------------------------------------
\* Ties in the competition
\* ------------------------------------------------------------------------
\* the position in results of the first result of the greatest count
FirstOfMaxCount ==
    CHOOSE i \in 1..Len(results) :
        /\ \A j \in 1..Len(results) : Len(results[j].placed) <= Len(results[i].placed)
        /\ \A j \in 1..(i - 1) : Len(results[j].placed) < Len(results[i].placed)

\* C26: two strategy results of the same placement count have the same
\* utilization, so the utilization never decides: compete_strategies
\* returns the first result of the list results among those of the
\* greatest count, and the list is in the order of jobs when no pool ran.
C26_TieGoesToFirst ==
    /\ cpc # "idle" =>
           \A i, j \in 1..Len(outcome) :
               Len(outcome[i].placed) = Len(outcome[j].placed) =>
                   outcome[i].util = outcome[j].util
    /\ \A i, j \in 1..Len(results) :
           Len(results[i].placed) = Len(results[j].placed) =>
               /\ results[i].util = results[j].util
               /\ ~key_less(results[i], results[j])
    /\ Reduced =>
           /\ winner.best_name = results[FirstOfMaxCount].name
           /\ winner.best_placed = results[FirstOfMaxCount].placed
           /\ winner.best_util = results[FirstOfMaxCount].util
           /\ winner.best_path = filename_of(results[FirstOfMaxCount].name)
           /\ (\A j \in 1..Len(jobs) : futs[j] = "none") => results = outcome

\* C26 witness: a pool run in which two results tie for the greatest count
\* and the winner is the one that completed first, later in jobs than the
\* other
C26_Witness ==
    /\ Reduced
    /\ parallel
    /\ \E j \in 1..Len(results) :
           /\ j # FirstOfMaxCount
           /\ Len(results[j].placed) = Len(results[FirstOfMaxCount].placed)
           /\ results[j].name = JobsOrderWinner.name
    /\ winner.best_name = results[FirstOfMaxCount].name
    /\ winner.best_name # JobsOrderWinner.name
    /\ Len(winner.best_placed) > 0

\* ------------------------------------------------------------------------
\* The clearance an accepted candidate keeps
\* ------------------------------------------------------------------------
\* every piece of the list is farther than half the margin from every
\* piece before it: twice the distance exceeds the margin
ClearOfEarlier(ps, margin) ==
    \A j \in 1..Len(ps) :
        \A i \in 1..(j - 1) : 4 * Dist2(ps[i], ps[j]) > margin * margin

\* the index holds the pieces of the list, in order, each inflated by half
\* the margin
StoresInflated(idx, ps, margin) ==
    /\ idx.items = ps
    /\ Len(idx.items_buf) = Len(ps)
    /\ \A i \in 1..Len(ps) :
           /\ idx.items_buf[i].geom = ps[i]
           /\ idx.items_buf[i].r2 = margin

\* C27: the index of fill_phase_1 and of each combination of phase 2
\* stores every accepted piece inflated by margin/2, and every placement
\* accepted does not intersect, not even touch, the inflated footprint of
\* any piece stored before it in the same index: its distance to each
\* earlier piece is strictly greater than margin/2.
C27_ClearOfInflated ==
    /\ (pc = "phase1" /\ f.pc = "end") =>
           /\ StoresInflated(f.coll_idx, f.placed, inp.margin)
           /\ ClearOfEarlier(f.placed, inp.margin)
    /\ (pc = "phase2" /\ t.pc = "end") =>
           /\ StoresInflated(t.comb_idx, t.test_placed, inp.margin)
           /\ ClearOfEarlier(t.test_placed, inp.margin)
    /\ pc = "done" => ClearOfEarlier(result.placed, inp.margin)

\* C27 witness: a result with pieces of both phases, two of them closer
\* than the margin yet farther than half of it
C27_Witness ==
    /\ pc = "done"
    /\ inp.margin >= 2
    /\ Len(result.placed) > Len(f.placed)
    /\ Len(f.placed) >= 2
    /\ \E i, j \in 1..Len(result.placed) :
           /\ i < j
           /\ Dist2(result.placed[i], result.placed[j]) < inp.margin * inp.margin
           /\ 4 * Dist2(result.placed[i], result.placed[j]) > inp.margin * inp.margin

\* ------------------------------------------------------------------------
\* The seed of a strip of fill_phase_1
\* ------------------------------------------------------------------------
\* the seed fill_phase_1 tries, or tried last, at (x0, y0)
SeedGeom ==
    shp_translate(current_piece(normalize_polygon(call.poly_piece),
                                call.alternate_180, f.piece_counter),
                  f.x0, f.y0)

\* the greatest extent of the pieces placed, across the strips
PlacedExtent ==
    SetMax({ bounds(f.placed[i])[IF call.direction = "x" THEN 4 ELSE 3] :
               i \in 1..Len(f.placed) })

\* C28: in fill_phase_1 with margin > 0 the seed of every strip after the
\* first lies at the greatest extent of all placed pieces plus the margin
\* across the strips and at 0 along them, farther than margin/2 from every
\* placed piece, so it always passes the collision test: phase 1 ends only
\* with the target reached or with a seed that does not fit the sheet.
C28_SeedNeverCollides ==
    (pc = "phase1" /\ inp.margin > 0 /\ f.pc \in { "seed", "end" } /\ f.placed # << >>) =>
        /\ IF call.direction = "x"
           THEN f.x0 = 0 /\ f.y0 = PlacedExtent + inp.margin
           ELSE f.y0 = 0 /\ f.x0 = PlacedExtent + inp.margin
        /\ \A i \in 1..Len(f.placed) :
               4 * Dist2(f.placed[i], SeedGeom) > inp.margin * inp.margin
        /\ ~collides(f.coll_idx, SeedGeom)
        /\ f.pc = "end" => (f.total = inp.count \/ ~InSheet(SeedGeom))

\* C28 witness: with a margin, phase 1 ended short of the target after at
\* least two strips, on a seed that passes the collision test and does not
\* fit the sheet
C28_Witness ==
    /\ pc = "phase1"
    /\ f.pc = "end"
    /\ inp.margin > 0
    /\ f.total < inp.count
    /\ \E i \in 1..Len(f.placed) :
           bounds(f.placed[i])[IF call.direction = "x" THEN 2 ELSE 1] > 0
    /\ ~collides(f.coll_idx, SeedGeom)
    /\ ~InSheet(SeedGeom)

\* ------------------------------------------------------------------------
\* The corner candidate of find_empty_rectangle
\* ------------------------------------------------------------------------
\* the candidates find_empty_rectangle collected on the placements of
\* phase 1, and those of a name
FoundCandidates ==
    empty_candidates(inp.sheet_w, inp.sheet_h, f.placed, inp.margin)

Named(n) == { i \in 1..Len(FoundCandidates) : FoundCandidates[i].name = n }

\* C29: the corner candidate of find_empty_rectangle is never the region
\* returned: whenever it qualifies, the candidate right of the occupied
\* area qualifies too and has a strictly larger area.
C29_CornerNeverReturned ==
    (pc = "done" /\ f.total < inp.count /\ f.placed # << >>) =>
        /\ Qualifying(CornerRegion) =>
               /\ Qualifying(RightRegion)
               /\ RightRegion[3] * RightRegion[4] > CornerRegion[3] * CornerRegion[4]
               /\ empty_rect # << >>
        /\ Named("canto") # {} =>
               /\ Named("direita") # {}
               /\ \A i \in Named("canto"), j \in Named("direita") :
                      FoundCandidates[j].area > FoundCandidates[i].area
        /\ (Named("canto") # {}) <=> Qualifying(CornerRegion)
        /\ empty_rect # CornerRegion

\* C29 witness: the corner candidate qualified, and the region on the right
\* was returned
C29_Witness ==
    /\ pc = "done"
    /\ f.total < inp.count
    /\ f.placed # << >>
    /\ Qualifying(CornerRegion)
    /\ Named("canto") # {}
    /\ empty_rect = RightRegion

\* ------------------------------------------------------------------------
\* Where the additions of phase 2 lie
\* ------------------------------------------------------------------------
\* the pieces of a list past the placements of phase 1
Additions(ps) == { ps[i] : i \in (Len(f.placed) + 1)..Len(ps) }

\* the list phase 2 is building, has returned, or the result carries
Phase2List ==
    IF pc = "phase2" THEN t.test_placed
    ELSE IF pc = "return" THEN placed
    ELSE result.placed

\* the axes (1: x, 2: y) along which the region starts at least margin past
\* the aggregate bounding box of phase 1
SeparatedAxes ==
    { a \in { 1, 2 } :
        empty_rect[a] - (IF a = 1 THEN AggMaxX ELSE AggMaxY) >= inp.margin }

\* C30: all the additions of phase 2 lie in the one region
\* find_empty_rectangle returned; the region is at least margin past the
\* aggregate bounding box of the placements of phase 1 along one axis, so
\* the bounding box of every addition is at least margin away, along that
\* axis, from the bounding box of every placement of phase 1.
C30_AdditionsInOneRegion ==
    (pc \in { "phase2", "return", "done" } /\ empty_rect # << >>) =>
        /\ \A g \in Additions(Phase2List) :
               BoxInside(bounds(g), empty_rect[1], empty_rect[2],
                         empty_rect[1] + empty_rect[3], empty_rect[2] + empty_rect[4])
        /\ SeparatedAxes # {}
        /\ \A a \in SeparatedAxes :
               \A g \in Additions(Phase2List) :
                   \A i \in 1..Len(f.placed) :
                       bounds(g)[a] - bounds(f.placed[i])[a + 2] >= inp.margin
        /\ SubSeq(Phase2List, 1, Len(f.placed)) = f.placed

\* C30 witness: a result with two additions and a positive margin, one of
\* them exactly margin away from a placement of phase 1
C30_Witness ==
    /\ pc = "done"
    /\ empty_rect # << >>
    /\ inp.margin > 0
    /\ Cardinality(Additions(result.placed)) >= 2
    /\ \E a \in SeparatedAxes :
           \E g \in Additions(result.placed) :
               \E i \in 1..Len(f.placed) :
                   bounds(g)[a] - bounds(f.placed[i])[a + 2] = inp.margin

====
